---- MODULE Spec2Model ----
(***************************************************************************)
(* Reconciliation pipeline of the calendar-events refresh:                 *)
(*   stage 1  expand_canadian_tickers, merge_variant_events                *)
(*   stage 2  convert_timezone, transform_event, filter_events,            *)
(*            dedupe_same_datetime, dedupe_earnings_by_fiscal_period,      *)
(*            consolidate_events, main                                     *)
(*                                                                         *)
(* Strings that the code compares lexically are modelled as sequences of   *)
(* naturals whose lexicographic order is the order of the strings:         *)
(*   "2024-03-15"                 <<2024, 3, 15>>                          *)
(*   "2024-03-15T00:00:00+00:00"  <<2024, 3, 15, 0, 0, 0>>                 *)
(*   "2024-03-14T20:00:00-04:00"  <<2024, 3, 14, 20, 1, 4>>                *)
(*   ""                           <<>>                                     *)
(* (fifth component: 0 for '+', 1 for '-', as '+' < '-' in ASCII).         *)
(* A ticker "BMO-CA" is the record [base |-> "BMO", sfx |-> "-CA",         *)
(* pad |-> ""]; pad holds the whitespace in front of it (" BMO-CA").       *)
(* A description is the sequence of its words and tickers; the blanks      *)
(* between them are written out (Sp) where a padded ticker is searched.    *)
(***************************************************************************)
EXTENDS Integers, Sequences, FiniteSets, TLC

VARIABLES
    \* ---- stage 2 main() -------------------------------------------------
    pc,                      \* position in main(): the stage to run next
    raw_events,              \* rows loaded from the stage 1 file
    events,                  \* the list main() rebinds after every stage
    run,                     \* 1 or 2: which execution of main() this is
    first_result,            \* what run 1 handed to save_events
    output_file,             \* content of processed_calendar_events.csv
    timestamp,               \* datetime.now() read by this run of main()
    input_exists,            \* INPUT_PATH.exists(): stage 1 left its file
    errors,                  \* what stage 2 passed to log.error
    \* ---- module configuration -------------------------------------------
    DATETIME_DEDUP_PRIORITY, \* data_processing.py:60
    \* ---- resolvers called on their own ----------------------------------
    rs_op,                   \* which resolver was called ("idle" before)
    rs_events,               \* its argument
    rs_result,               \* its return value
    rs_methods,              \* the `method` chosen for every earnings group
    \* ---- stage 1 expand_canadian_tickers / merge_variant_events ---------
    tickers,                 \* the argument list
    ex_i,                    \* loop position (index of the next ticker)
    expanded,                \* local `expanded`
    variant_map,             \* local `variant_map`
    mg_pc,                   \* position of the merge
    mg_events,               \* events fetched for the query tickers
    mg_result,               \* return value of merge_variant_events
    mg_kept,                 \* _original_ticker of every returned record
    \* ---- convert_timezone called on its own -----------------------------
    tz_pc,
    tz_in,                   \* utc_str
    tz_flag,                 \* time_unconfirmed
    tz_out,                  \* the returned 4-tuple
    \* ---- filter_events called on its own --------------------------------
    fl_pc,
    fl_events,               \* its argument
    fl_included,             \* INCLUDED_EVENT_TYPES (data_processing.py:39)
    fl_excluded,             \* EXCLUDED_EVENT_TYPES (data_processing.py:50)
    fl_rules,                \* DEDUP_RULES (data_processing.py:56)
    fl_result,               \* filtered, and the two defaultdicts of counts
    \* ---- main.py and stage 3 main() -------------------------------------
    s3_pc,                   \* position in main.py / database_upload.main()
    args,                    \* main.py's parsed flags: dry_run, skip_upload
    sys_argv,                \* sys.argv[1:] as stage 3's parser reads it
    dry_run,                 \* stage 3's args.dry_run
    csv_exists,              \* INPUT_PATH.exists() in stage 3
    csv_rows,                \* rows of processed_calendar_events.csv
    s3_events,               \* local `events` of stage 3
    conn_ok,                 \* the server accepts the connection
    table_exists,            \* the table is in inspector.get_table_names()
    db_columns,              \* column names of the destination table
    table,                   \* committed rows of the destination table
    current_count,           \* local `current_count` (line 219)
    pending,                 \* rows inserted on the open connection, not committed
    ins_i,                   \* position of the insert loop
    statements,              \* every statement sent to the server, in order
    s3_log,                  \* stage 3's log.error / log.warning lines
    \* ---- the chunk loop of fetch_events ---------------------------------
    n_chunks,                \* len(chunks)
    chunk_i,                 \* the chunk being queried (from 1)
    attempt,                 \* `attempt` of query_chunk's retry loop
    ft_chunks,               \* for every chunk queried so far: how
                             \* query_chunk ended and what the API sent
    ft_calls,                \* api.get_company_event calls made by the
                             \* query_chunk call that started last
    ft_sleeps,               \* its time.sleep(wait_time) calls, in order
    ft_caught,               \* the error messages it caught, in order
    \* ---- consolidate_events called on its own ---------------------------
    cs_pc,
    cs_arg,                  \* the list as it was passed
    cs_events,               \* the caller's list, as the call leaves it
    cs_rules,                \* DEDUP_RULES (data_processing.py:56)
    cs_result,               \* the returned list
    \* ---- transform_event called on its own ------------------------------
    tr_pc,
    tr_arg,                  \* the raw record as it was passed
    tr_raw,                  \* the caller's record, as the call leaves it
    tr_out,                  \* the returned record
    \* ---- split_date_range -----------------------------------------------
    sp_pc,                   \* "loop", "returned" or "raised"
    start_date,
    end_date,
    current,
    ranges,
    \* ---- main.py: the three stages and the files between them -----------
    pl_pc,                   \* the stage main.py runs next
    pl_args,                 \* main.py's flags: dry_run, skip_upload
    raw_csv,                 \* output/raw_calendar_events.csv
    processed_csv,           \* output/processed_calendar_events.csv
    pl_table,                \* rows of the destination table
    pl_fetched,              \* stage 1's `events`
    pl_raw_events,           \* stage 2's `raw_events`
    pl_stage2,               \* how stage 2 ended
    pl_events,               \* stage 3's `events`
    pl_replaced              \* stage 3 deleted and inserted

vars == <<pc, raw_events, events, run, first_result, output_file, timestamp,
          input_exists, errors,
          DATETIME_DEDUP_PRIORITY,
          rs_op, rs_events, rs_result, rs_methods,
          tickers, ex_i, expanded, variant_map,
          mg_pc, mg_events, mg_result, mg_kept,
          tz_pc, tz_in, tz_flag, tz_out,
          fl_pc, fl_events, fl_included, fl_excluded, fl_rules, fl_result,
          s3_pc, args, sys_argv, dry_run, csv_exists, csv_rows, s3_events,
          conn_ok, table_exists, db_columns, table, current_count, pending,
          ins_i, statements, s3_log,
          n_chunks, chunk_i, attempt, ft_chunks, ft_calls, ft_sleeps, ft_caught,
          cs_pc, cs_arg, cs_events, cs_rules, cs_result,
          tr_pc, tr_arg, tr_raw, tr_out,
          sp_pc, start_date, end_date, current, ranges,
          pl_pc, pl_args, raw_csv, processed_csv, pl_table, pl_fetched,
          pl_raw_events, pl_stage2, pl_events, pl_replaced>>

stage2_vars == <<pc, raw_events, events, run, first_result, output_file, timestamp,
                 input_exists, errors>>
rs_vars     == <<rs_op, rs_events, rs_result, rs_methods>>
ex_vars     == <<tickers, ex_i, expanded, variant_map>>
mg_vars     == <<mg_pc, mg_events, mg_result, mg_kept>>
tz_vars     == <<tz_pc, tz_in, tz_flag, tz_out>>
fl_vars     == <<fl_pc, fl_events, fl_included, fl_excluded, fl_rules, fl_result>>
\* the parts added for stage 2's filter, stage 3 and stage 1's fetch loop
s3_vars     == <<s3_pc, args, sys_argv, dry_run, csv_exists, csv_rows, s3_events,
                 conn_ok, table_exists, db_columns, table, current_count,
                 pending, ins_i, statements, s3_log>>
ft_vars     == <<n_chunks, chunk_i, attempt, ft_chunks, ft_calls, ft_sleeps, ft_caught>>
\* the parts added for consolidate_events
cs_vars     == <<cs_pc, cs_arg, cs_events, cs_rules, cs_result>>
tr_vars     == <<tr_pc, tr_arg, tr_raw, tr_out>>
sp_vars     == <<sp_pc, start_date, end_date, current, ranges>>
pl_vars     == <<pl_pc, pl_args, raw_csv, processed_csv, pl_table, pl_fetched,
                 pl_raw_events, pl_stage2, pl_events, pl_replaced>>
more_vars   == <<cs_vars, tr_vars, sp_vars, pl_vars>>
ext_vars    == <<fl_vars, s3_vars, ft_vars, more_vars>>

----------------------------------------------------------------------------
(* Generic helpers: Python list / str semantics                            *)

\* str.__lt__ on the sequence encoding (a proper prefix is smaller)
RECURSIVE LexLess(_, _)
LexLess(a, b) ==
    IF b = <<>> THEN FALSE
    ELSE IF a = <<>> THEN TRUE
    ELSE IF Head(a) < Head(b) THEN TRUE
    ELSE IF Head(a) > Head(b) THEN FALSE
    ELSE LexLess(Tail(a), Tail(b))

LexLeq(a, b) == a = b \/ LexLess(a, b)

Range(s) == {s[i] : i \in 1..Len(s)}

\* `x in list`
InList(x, s) == \E i \in 1..Len(s) : s[i] = x

\* all sequences over S of length 0..n
SeqsUpTo(S, n) == UNION {[1..k -> S] : k \in 0..n}

\* index of the first occurrence of x in s (0 when absent)
IndexOf(x, s) ==
    IF InList(x, s) THEN CHOOSE i \in 1..Len(s) : s[i] = x /\ \A j \in 1..(i-1) : s[j] # x
    ELSE 0

----------------------------------------------------------------------------
(* Calendar and zone arithmetic behind dateutil / pytz                     *)

DaysIn(y, m) ==
    IF m \in {4, 6, 9, 11} THEN 30
    ELSE IF m = 2 THEN (IF y % 4 = 0 THEN 29 ELSE 28)
    ELSE 31

NextDay(dt) ==
    IF dt[3] < DaysIn(dt[1], dt[2]) THEN <<dt[1], dt[2], dt[3] + 1>>
    ELSE IF dt[2] < 12 THEN <<dt[1], dt[2] + 1, 1>>
    ELSE <<dt[1] + 1, 1, 1>>

PrevDay(dt) ==
    IF dt[3] > 1 THEN <<dt[1], dt[2], dt[3] - 1>>
    ELSE IF dt[2] > 1 THEN <<dt[1], dt[2] - 1, DaysIn(dt[1], dt[2] - 1)>>
    ELSE <<dt[1] - 1, 12, 31>>

\* wall clock <<y, m, d, h>> moved by k hours, -24 < k < 24
ShiftHours(w, k) ==
    LET h == w[4] + k
        day == <<w[1], w[2], w[3]>>
    IN  IF h < 0 THEN PrevDay(day) \o <<h + 24>>
        ELSE IF h >= 24 THEN NextDay(day) \o <<h - 24>>
        ELSE day \o <<h>>

\* America/Toronto, 2024: daylight time from 2024-03-10 07:00 UTC
\* (02:00 EST) until 2024-11-03 06:00 UTC (02:00 EDT)
DstStartUtc == <<2024, 3, 10, 7>>
DstEndUtc   == <<2024, 11, 3, 6>>

\* pytz: is the UTC wall clock u inside daylight time
IsDstUtc(u) == LexLeq(DstStartUtc, u) /\ LexLess(u, DstEndUtc)

\* pytz localize(): is the local wall clock w inside daylight time; the
\* repeated hour 01:00-02:00 of 2024-11-03 resolves to standard time
IsDstLocal(w) == LexLeq(<<2024, 3, 10, 3>>, w) /\ LexLess(w, <<2024, 11, 3, 1>>)

TzAbbr(dst) == IF dst THEN "EDT" ELSE "EST"
\* hours behind UTC
TzBehind(dst) == IF dst THEN 4 ELSE 5

\* isoformat() of wall clock w at an offset of `off` hours from UTC
IsoFormat(w, off) == w \o (IF off < 0 THEN <<1, -off>> ELSE <<0, off>>)

----------------------------------------------------------------------------
(* A timestamp string.  kind "none": None or "";  kind "bad": text that    *)
(* dateutil cannot parse;  kind "ts": y-m-d h:00 with tz = <<>> (no zone   *)
(* in the string) or tz = <<k>> (an offset of k hours).                    *)

NoTimestamp  == [kind |-> "none", y |-> 0, m |-> 0, d |-> 0, h |-> 0, tz |-> <<>>]
BadTimestamp == [kind |-> "bad", y |-> 0, m |-> 0, d |-> 0, h |-> 0, tz |-> <<>>]
Timestamp(y, m, d, h, tz) == [kind |-> "ts", y |-> y, m |-> m, d |-> d, h |-> h, tz |-> tz]

\* variant: a timestamp that is missing or unreadable is taken as the epoch
EpochTimes == [utc |-> <<1970, 1, 1, 0, 0, 0>>, local |-> <<1969, 12, 31, 19, 1, 5>>,
               date |-> <<1969, 12, 31>>, time |-> <<19, 0, "EST">>]

\* the tuple ("", "", "", "") of lines 156 and 190
EmptyTimes == [utc |-> <<>>, local |-> <<>>, date |-> <<>>, time |-> <<>>]

\* the offset of the parsed datetime: dt.replace(tzinfo=pytz.UTC) when naive
ParsedOffset(s) == IF s.tz = <<>> THEN 0 ELSE s.tz[1]

\* the instant of the parsed datetime as a UTC wall clock
UtcWall(s) == ShiftHours(<<s.y, s.m, s.d, s.h>>, -ParsedOffset(s))

convert_timezone(utc_str, time_unconfirmed) ==
    IF utc_str.kind = "none" THEN EmptyTimes
    ELSE IF utc_str.kind = "bad" THEN EmptyTimes
    ELSE
      LET off == ParsedOffset(utc_str)
          dt  == <<utc_str.y, utc_str.m, utc_str.d, utc_str.h>>
      IN  IF time_unconfirmed
          THEN LET date_str == <<utc_str.y, utc_str.m, utc_str.d>>
                   midnight == date_str \o <<0>>
                   dst      == IsDstLocal(midnight)
               IN  [utc   |-> IsoFormat(dt, off),
                    local |-> IsoFormat(midnight, -TzBehind(dst)),
                    date  |-> date_str,
                    time  |-> <<0, 0, TzAbbr(dst)>>]
          ELSE LET u        == UtcWall(utc_str)
                   dst      == IsDstUtc(u)
                   dt_local == ShiftHours(u, -TzBehind(dst))
               IN  [utc   |-> IsoFormat(dt, off),
                    local |-> IsoFormat(dt_local, -TzBehind(dst)),
                    date  |-> SubSeq(dt_local, 1, 3),
                    time  |-> <<dt_local[4], 0, TzAbbr(dst)>>]

----------------------------------------------------------------------------
(* Python list idioms used by every resolver                               *)

\* indices of s whose key K is seen for the first time, ascending: the
\* iteration order of a dict (defaultdict) filled while walking s
FirstIdx(s, K(_)) ==
    SelectSeq([i \in 1..Len(s) |-> i],
              LAMBDA i : \A j \in 1..(i - 1) : K(s[j]) # K(s[i]))

\* list.sort / sorted: stable; Before(a, b) is "a sorts strictly before b"
SortBy(s, Before(_, _)) ==
    LET rank(i) == 1 + Cardinality({j \in 1..Len(s) :
                         \/ Before(s[j], s[i])
                         \/ (~Before(s[i], s[j]) /\ j < i)})
    IN  [k \in 1..Len(s) |-> s[CHOOSE i \in 1..Len(s) : rank(i) = k]]

\* [f(x) for x in s]
Map(s, F(_)) == [i \in 1..Len(s) |-> F(s[i])]

----------------------------------------------------------------------------
(* Stage 2 configuration tables (data_processing.py:33-66)                 *)

Tk(base, sfx) == [base |-> base, sfx |-> sfx, pad |-> ""]

\* the ticker with a blank in front of it, and a blank of a description
Padded(ticker) == [ticker EXCEPT !.pad = " "]
Sp == Tk(" ", "")

CANADIAN_BANK_BASES == {"RY", "TD", "BMO", "BNS", "CM", "NA"}

INCLUDED_EVENT_TYPES == <<"Earnings", "SalesRevenue", "Dividend", "Conference",
                          "ShareholdersMeeting", "AnalystsInvestorsMeeting",
                          "SpecialSituation">>

EXCLUDED_EVENT_TYPES == <<"ProjectedEarningsRelease", "ConfirmedEarningsRelease">>

\* an ordered dict target -> sources, as a sequence of [target, sources]
DEDUP_RULES == <<>>

\* dict source -> target
RENAME_RULES == [t \in {"SalesRevenueRelease", "SalesRevenueCall"} |-> "SalesRevenue"]

\* monitored_institutions.yaml as loaded by load_institutions()
institutions ==
    [t \in {Tk("RY", "-CA"), Tk("JPM", "-US")} |->
        IF t.base = "RY"
        THEN [name |-> "Royal Bank of Canada", id |-> "1", type |-> "Canadian_Banks"]
        ELSE [name |-> "JPMorgan Chase", id |-> "2", type |-> "US_Banks"]]

----------------------------------------------------------------------------
(* transform_event and its helpers                                         *)

\* str.strip()
strip(ticker) == [ticker EXCEPT !.pad = ""]

\* variant: every -US ticker is rewritten
normalize_canadian_ticker_any_base(ticker) ==
    LET t == strip(ticker) IN
    IF t.sfx = "-US" THEN Tk(t.base, "-CA") ELSE t

normalize_canadian_ticker(ticker) ==
    LET t == strip(ticker) IN
    IF t.sfx = "-US" /\ t.base \in CANADIAN_BANK_BASES
    THEN Tk(t.base, "-CA")
    ELSE t

\* a ticker as the characters of a description: its blank, then itself
AsAtoms(ticker) == IF ticker.pad = "" THEN <<ticker>> ELSE <<Sp, strip(ticker)>>

\* `ticker in description`
Contains(description, ticker) ==
    LET sub == AsAtoms(ticker) IN
    \E i \in 1..Len(description) :
        /\ i + Len(sub) - 1 <= Len(description)
        /\ SubSeq(description, i, i + Len(sub) - 1) = sub

\* str.replace: the occurrences of old, left to right, not overlapping
RECURSIVE ReplaceAtoms(_, _, _)
ReplaceAtoms(s, old, new) ==
    IF Len(s) < Len(old) THEN s
    ELSE IF SubSeq(s, 1, Len(old)) = old
    THEN new \o ReplaceAtoms(SubSeq(s, Len(old) + 1, Len(s)), old, new)
    ELSE <<s[1]>> \o ReplaceAtoms(Tail(s), old, new)

Replace(description, old, new) == ReplaceAtoms(description, AsAtoms(old), AsAtoms(new))

TimeTBD == Tk("(Time TBD)", "")

build_contact_info(raw) ==
    (IF raw.contact_name # "" THEN <<"Contact: " \o raw.contact_name>> ELSE <<>>)
    \o (IF raw.contact_phone # "" THEN <<"Phone: " \o raw.contact_phone>> ELSE <<>>)
    \o (IF raw.contact_email # "" THEN <<"Email: " \o raw.contact_email>> ELSE <<>>)

normalize_fiscal_year(value) ==
    IF value \in {"0", "0.0"} THEN "" ELSE value

transform_event(raw, insts, stamp) ==
    LET raw_ticker  == raw.ticker
        ticker      == normalize_canadian_ticker(raw_ticker)
        description == IF raw_ticker # ticker /\ Contains(raw.description, raw_ticker)
                       THEN Replace(raw.description, raw_ticker, ticker)
                       ELSE raw.description
        known       == ticker \in DOMAIN insts
        time_unconfirmed == raw.market_time_code = "Unspecified"
        t           == convert_timezone(raw.event_date_time, time_unconfirmed)
    IN  [event_id               |-> raw.event_id,
         ticker                 |-> ticker,
         institution_name       |-> IF known THEN insts[ticker].name ELSE "Unknown",
         institution_id         |-> IF known THEN insts[ticker].id ELSE "",
         institution_type       |-> IF known THEN insts[ticker].type ELSE "Unknown",
         event_type             |-> raw.event_type,
         event_headline         |-> IF time_unconfirmed
                                    THEN description \o <<TimeTBD>>
                                    ELSE description,
         event_date_time_utc    |-> t.utc,
         event_date_time_local  |-> t.local,
         event_date             |-> t.date,
         event_time_local       |-> t.time,
         webcast_link           |-> raw.webcast_link,
         contact_info           |-> build_contact_info(raw),
         fiscal_year            |-> normalize_fiscal_year(raw.fiscal_year),
         fiscal_period          |-> raw.fiscal_period,
         data_fetched_timestamp |-> stamp,
         last_modified_date     |-> raw.last_modified_date]

----------------------------------------------------------------------------
(* filter_events                                                           *)

\* get_allowed_types() for given values of the four configuration tables
AllowedTypes(included, excluded, rules, renames) ==
    (Range(included)
       \cup UNION {Range(rules[i].sources) : i \in 1..Len(rules)}
       \cup DOMAIN renames)
    \ Range(excluded)

get_allowed_types ==
    AllowedTypes(INCLUDED_EVENT_TYPES, EXCLUDED_EVENT_TYPES, DEDUP_RULES, RENAME_RULES)

\* a defaultdict(int) after `d[e.event_type] += 1` for every e of dropped
CountsByType(dropped) ==
    [t \in {dropped[i].event_type : i \in 1..Len(dropped)} |->
        Cardinality({i \in 1..Len(dropped) : dropped[i].event_type = t})]

NoFilterResult ==
    [filtered |-> <<>>, excluded_counts |-> CountsByType(<<>>),
     explicitly_excluded_counts |-> CountsByType(<<>>)]

\* variant: the allow-list is consulted first, and holds the included types
\* and the rule sources whether or not they are on the deny-list
FilterLoopAllowFirst(evs, included, excluded, rules, renames) ==
    LET allowed == AllowedTypes(included, <<>>, rules, renames)
        Kept(e) == e.event_type \in allowed
        Explicit(e) == ~Kept(e) /\ InList(e.event_type, excluded)
        Unknown(e) == ~Kept(e) /\ ~Explicit(e)
    IN  [filtered |-> SelectSeq(evs, Kept),
         excluded_counts |-> CountsByType(SelectSeq(evs, Unknown)),
         explicitly_excluded_counts |-> CountsByType(SelectSeq(evs, Explicit))]

\* the loop of lines 278-285: if / elif / else on every event, in order
FilterLoop(evs, included, excluded, rules, renames) ==
    LET allowed == AllowedTypes(included, excluded, rules, renames)
        Explicit(e) == InList(e.event_type, excluded)
        Kept(e) == ~Explicit(e) /\ e.event_type \in allowed
        Unknown(e) == ~Explicit(e) /\ ~Kept(e)
    IN  [filtered |-> SelectSeq(evs, Kept),
         excluded_counts |-> CountsByType(SelectSeq(evs, Unknown)),
         explicitly_excluded_counts |-> CountsByType(SelectSeq(evs, Explicit))]

filter_events(evs) ==
    FilterLoop(evs, INCLUDED_EVENT_TYPES, EXCLUDED_EVENT_TYPES,
               DEDUP_RULES, RENAME_RULES).filtered

----------------------------------------------------------------------------
(* dedupe_same_datetime                                                    *)

\* priority.get(type, 999) for priority = {t: i for i, t in enumerate(list)}
PriorityIndex(etype, priority) ==
    IF InList(etype, priority)
    THEN (CHOOSE i \in 1..Len(priority) :
             priority[i] = etype /\ \A j \in (i + 1)..Len(priority) : priority[j] # etype) - 1
    ELSE 999

SameDatetimeKey(e) == <<e.ticker, e.event_date_time_utc>>

\* variant: the group is sorted the wrong way round (lowest priority kept)
dedupe_same_datetime_reversed(evs, priority) ==
    IF priority = <<>> THEN evs
    ELSE
      LET listed == SelectSeq(evs, LAMBDA e : InList(e.event_type, priority))
          other  == SelectSeq(evs, LAMBDA e : ~InList(e.event_type, priority))
          keep(i) ==
              LET group == SelectSeq(listed, LAMBDA e : SameDatetimeKey(e) = SameDatetimeKey(listed[i]))
              IN  SortBy(group, LAMBDA a, b : PriorityIndex(a.event_type, priority)
                                              > PriorityIndex(b.event_type, priority))[1]
      IN  Map(FirstIdx(listed, SameDatetimeKey), keep) \o other

dedupe_same_datetime(evs, priority) ==
    IF priority = <<>> THEN evs
    ELSE
      LET listed == SelectSeq(evs, LAMBDA e : InList(e.event_type, priority))
          other  == SelectSeq(evs, LAMBDA e : ~InList(e.event_type, priority))
          keep(i) ==
              LET group == SelectSeq(listed, LAMBDA e : SameDatetimeKey(e) = SameDatetimeKey(listed[i]))
              IN  SortBy(group, LAMBDA a, b : PriorityIndex(a.event_type, priority)
                                              < PriorityIndex(b.event_type, priority))[1]
      IN  Map(FirstIdx(listed, SameDatetimeKey), keep) \o other

----------------------------------------------------------------------------
(* dedupe_earnings_by_fiscal_period and its helpers                        *)

\* date[:7] if len(date) >= 7 else ""
_get_event_month(e) ==
    IF Len(e.event_date) >= 3 THEN SubSeq(e.event_date, 1, 2) ELSE <<>>

\* variant: the index of lines 436-442, which counts every ticker's records
PeerEventsAnyTicker(earnings, ticker, fy, fp) ==
    SelectSeq(earnings, LAMBDA e : /\ e.fiscal_year # "" /\ e.fiscal_period # ""
                                   /\ _get_event_month(e) # <<>>
                                   /\ e.fiscal_year = fy /\ e.fiscal_period = fp)

\* the dict filtered_peer_index[(fy, fp)] built at lines 468-475: months of
\* the other tickers' earnings for this fiscal period, in insertion order,
\* each with its count
PeerEvents(earnings, ticker, fy, fp) ==
    SelectSeq(earnings, LAMBDA e : /\ e.ticker # ticker
                                   /\ e.fiscal_year # "" /\ e.fiscal_period # ""
                                   /\ _get_event_month(e) # <<>>
                                   /\ e.fiscal_year = fy /\ e.fiscal_period = fp)

PeerCount(peers, month) ==
    Cardinality({i \in 1..Len(peers) : _get_event_month(peers[i]) = month})

\* returns <<event>> for a pick and <<>> for None
_pick_by_peer_comparison(group, peers) ==
    IF peers = <<>> THEN <<>>
    ELSE
      LET peer_months == Map(FirstIdx(peers, _get_event_month),
                             LAMBDA i : _get_event_month(peers[i]))
          \* max(peer_months, key=peer_months.get): the first key, in
          \* insertion order, with the largest count
          best == CHOOSE k \in 1..Len(peer_months) :
                     /\ \A j \in 1..Len(peer_months) :
                           PeerCount(peers, peer_months[j]) <= PeerCount(peers, peer_months[k])
                     /\ \A j \in 1..(k - 1) :
                           PeerCount(peers, peer_months[j]) < PeerCount(peers, peer_months[k])
          consensus_month == peer_months[best]
          matching == SelectSeq(group, LAMBDA e : _get_event_month(e) = consensus_month)
      IN  IF matching = <<>> THEN <<>> ELSE <<matching[1]>>

\* variant: the sort of line 388 without reverse=True
_pick_by_last_modified_oldest(group) ==
    SortBy(group, LAMBDA a, b : LexLess(a.last_modified_date, b.last_modified_date))[1]

\* sorted(group, key=last_modified, reverse=True)[0]
_pick_by_last_modified(group) ==
    SortBy(group, LAMBDA a, b : LexLess(b.last_modified_date, a.last_modified_date))[1]

\* variants of the grouping key used to test the claims about it
EarningsKeyPerMonth(e) == <<e.ticker, e.fiscal_year, e.fiscal_period, _get_event_month(e)>>
EarningsKeyNoTicker(e) == <<Tk("", ""), e.fiscal_year, e.fiscal_period>>

EarningsKey(e) == <<e.ticker, e.fiscal_year, e.fiscal_period>>

HasFiscal(e) == e.fiscal_year # "" /\ e.fiscal_period # ""

\* the set `months` of line 458-459
GroupMonths(group) == {_get_event_month(group[i]) : i \in 1..Len(group)} \ {<<>>}

\* variant: the month test of line 461 is skipped
ResolveEarningsGroupAlwaysPeers(group, earnings) ==
    IF Len(group) = 1 THEN [winner |-> group[1], method |-> "single"]
    ELSE
      LET k    == <<group[1].ticker, group[1].fiscal_year, group[1].fiscal_period>>
          pick == _pick_by_peer_comparison(group, PeerEvents(earnings, k[1], k[2], k[3]))
      IN  IF pick # <<>>
          THEN [winner |-> pick[1], method |-> "peer_comparison"]
          ELSE [winner |-> _pick_by_last_modified(group),
                method |-> "last_modified (peer inconclusive)"]

\* one iteration of the loop at lines 449-486: the winner of a group and the
\* `method` that chose it ("single" for the len(group) == 1 branch)
ResolveEarningsGroup(group, earnings) ==
    IF Len(group) = 1 THEN [winner |-> group[1], method |-> "single"]
    ELSE IF Cardinality(GroupMonths(group)) <= 1
    THEN [winner |-> _pick_by_last_modified(group), method |-> "last_modified"]
    ELSE
      LET k    == EarningsKey(group[1])
          pick == _pick_by_peer_comparison(group, PeerEvents(earnings, k[1], k[2], k[3]))
      IN  IF pick # <<>>
          THEN [winner |-> pick[1], method |-> "peer_comparison"]
          ELSE [winner |-> _pick_by_last_modified(group),
                method |-> "last_modified (peer inconclusive)"]

\* the groups dict of lines 423-432 as a sequence of groups in key order
EarningsGroups(evs) ==
    LET keyed == SelectSeq(evs, LAMBDA e : e.event_type = "Earnings" /\ HasFiscal(e))
    IN  Map(FirstIdx(keyed, EarningsKey),
            LAMBDA i : SelectSeq(keyed, LAMBDA e : EarningsKey(e) = EarningsKey(keyed[i])))

\* the (winner, method) of every group, in key order
EarningsResolutions(evs) ==
    LET earnings == SelectSeq(evs, LAMBDA e : e.event_type = "Earnings")
    IN  Map(EarningsGroups(evs), LAMBDA g : ResolveEarningsGroup(g, earnings))

\* variant: the records without a fiscal year or period are not carried over
dedupe_earnings_by_fiscal_period_keyed_only(evs) ==
    LET earnings == SelectSeq(evs, LAMBDA e : e.event_type = "Earnings")
        other    == SelectSeq(evs, LAMBDA e : e.event_type # "Earnings")
    IN  IF earnings = <<>> THEN evs
        ELSE Map(EarningsResolutions(evs), LAMBDA r : r.winner) \o other

dedupe_earnings_by_fiscal_period(evs) ==
    LET earnings == SelectSeq(evs, LAMBDA e : e.event_type = "Earnings")
        other    == SelectSeq(evs, LAMBDA e : e.event_type # "Earnings")
                    \o SelectSeq(earnings, LAMBDA e : ~HasFiscal(e))
    IN  IF earnings = <<>> THEN evs
        ELSE Map(EarningsResolutions(evs), LAMBDA r : r.winner) \o other

----------------------------------------------------------------------------
(* consolidate_events and its helpers                                      *)

\* build_dedup_lookup: source -> [target, priority]; a later rule overwrites
RuleOf(etype, rules) ==
    CHOOSE i \in 1..Len(rules) :
        /\ InList(etype, rules[i].sources)
        /\ \A j \in (i + 1)..Len(rules) : ~InList(etype, rules[j].sources)

InDedupLookup(etype, rules) == \E i \in 1..Len(rules) : InList(etype, rules[i].sources)

DedupTarget(etype, rules) == rules[RuleOf(etype, rules)].target

DedupPriority(etype, rules) ==
    PriorityIndex(etype, rules[RuleOf(etype, rules)].sources)

get_dedup_key(e, target) ==
    IF HasFiscal(e)
    THEN [target |-> target, ticker |-> e.ticker, kind |-> "fiscal",
          fy |-> e.fiscal_year, fp |-> e.fiscal_period, date |-> <<>>]
    ELSE [target |-> target, ticker |-> e.ticker, kind |-> "date",
          fy |-> "", fp |-> "", date |-> e.event_date]

\* variant: the group is not sorted by priority before group[0] is taken
consolidate_events_first_listed(evs, rules, renames) ==
    LET grouped == SelectSeq(evs, LAMBDA e : InDedupLookup(e.event_type, rules))
        other   == SelectSeq(evs, LAMBDA e : ~InDedupLookup(e.event_type, rules))
        keyOf(e) == get_dedup_key(e, DedupTarget(e.event_type, rules))
        winner(i) == [grouped[i] EXCEPT !.event_type = keyOf(grouped[i]).target]
        rename(e) == IF e.event_type \in DOMAIN renames
                     THEN [e EXCEPT !.event_type = renames[e.event_type]]
                     ELSE e
    IN  Map(FirstIdx(grouped, keyOf), winner) \o Map(other, rename)

\* variant: the rename loop of lines 546-550 appends the records as they are
consolidate_events_without_rename(evs, rules, renames) ==
    LET grouped == SelectSeq(evs, LAMBDA e : InDedupLookup(e.event_type, rules))
        other   == SelectSeq(evs, LAMBDA e : ~InDedupLookup(e.event_type, rules))
        keyOf(e) == get_dedup_key(e, DedupTarget(e.event_type, rules))
        winner(i) ==
            LET group == SelectSeq(grouped, LAMBDA e : keyOf(e) = keyOf(grouped[i]))
                first == SortBy(group, LAMBDA a, b : DedupPriority(a.event_type, rules)
                                                     < DedupPriority(b.event_type, rules))[1]
            IN  [first EXCEPT !.event_type = keyOf(grouped[i]).target]
    IN  Map(FirstIdx(grouped, keyOf), winner) \o other

consolidate_events(evs, rules, renames) ==
    LET grouped == SelectSeq(evs, LAMBDA e : InDedupLookup(e.event_type, rules))
        other   == SelectSeq(evs, LAMBDA e : ~InDedupLookup(e.event_type, rules))
        keyOf(e) == get_dedup_key(e, DedupTarget(e.event_type, rules))
        winner(i) ==
            LET group == SelectSeq(grouped, LAMBDA e : keyOf(e) = keyOf(grouped[i]))
                first == SortBy(group, LAMBDA a, b : DedupPriority(a.event_type, rules)
                                                     < DedupPriority(b.event_type, rules))[1]
            IN  [first EXCEPT !.event_type = keyOf(grouped[i]).target]
        rename(e) == IF e.event_type \in DOMAIN renames
                     THEN [e EXCEPT !.event_type = renames[e.event_type]]
                     ELSE e
    IN  Map(FirstIdx(grouped, keyOf), winner) \o Map(other, rename)

----------------------------------------------------------------------------
(* Bounds and input domains                                                *)

MaxRaw      == 2    \* rows in the stage 1 file
MaxEvents   == 3    \* records handed to a resolver called on its own

RY_CA  == Tk("RY", "-CA")
RY_US  == Tk("RY", "-US")
TD_CA  == Tk("TD", "-CA")
Word(w) == Tk(w, "")

\* a row of raw_calendar_events.csv
RawEv(ticker, etype, ts, mtc, fy, fp, lm) ==
    [event_id |-> "", ticker |-> ticker, event_type |-> etype,
     event_date_time |-> ts, description |-> <<ticker, Word("call")>>,
     webcast_link |-> "", contact_name |-> "", contact_phone |-> "",
     contact_email |-> "", fiscal_year |-> fy, fiscal_period |-> fp,
     market_time_code |-> mtc, last_modified_date |-> lm]

RawWhen == {<<NoTimestamp, "", <<>>>>,
            <<BadTimestamp, "", <<3>>>>,
            <<Timestamp(2024, 5, 1, 0, <<>>), "Unspecified", <<1>>>>,
            <<Timestamp(2024, 5, 28, 12, <<0>>), "", <<2>>>>}

RawWhat == {<<"Earnings", "2024", "Q2">>, <<"Earnings", "0", "Q2">>,
            <<"Dividend", "", "">>, <<"SalesRevenueRelease", "2024", "Q2">>,
            <<"ConfirmedEarningsRelease", "2024", "Q2">>}

RawPool == {RawEv(t, w[1], n[1], n[2], w[2], w[3], n[3]) :
               t \in {RY_CA, RY_US}, w \in RawWhat, n \in RawWhen}

\* values of datetime.now(pytz.UTC).isoformat()
Clock == {<<2024, 6, 1, 9, 0, 0>>, <<2024, 6, 2, 9, 0, 0>>}

\* a processed record as a resolver receives it
Ev(ticker, etype, utc, date, fy, fp, lm) ==
    [event_id |-> "", ticker |-> ticker, institution_name |-> "Unknown",
     institution_id |-> "", institution_type |-> "Unknown",
     event_type |-> etype, event_headline |-> <<>>,
     event_date_time_utc |-> utc, event_date_time_local |-> <<>>,
     event_date |-> date, event_time_local |-> <<>>, webcast_link |-> "",
     contact_info |-> <<>>, fiscal_year |-> fy, fiscal_period |-> fp,
     data_fetched_timestamp |-> <<>>, last_modified_date |-> lm]

----------------------------------------------------------------------------
(* Stage 2 main(): one action per stage of lines 593-622                   *)

Stage2Off ==
    /\ pc = "off" /\ raw_events = <<>> /\ events = <<>> /\ run = 0
    /\ first_result = <<>> /\ output_file = <<>> /\ timestamp = <<>>
    /\ input_exists = FALSE /\ errors = <<>>
ResolversOff ==
    rs_op = "off" /\ rs_events = <<>> /\ rs_result = <<>> /\ rs_methods = <<>>
ExpandOff ==
    tickers = <<>> /\ ex_i = 0 /\ expanded = <<>> /\ variant_map = <<>>
MergeOff ==
    mg_pc = "off" /\ mg_events = <<>> /\ mg_result = <<>> /\ mg_kept = <<>>
TzOff ==
    tz_pc = "off" /\ tz_in = NoTimestamp /\ tz_flag = FALSE /\ tz_out = EmptyTimes
FilterOff ==
    /\ fl_pc = "off" /\ fl_events = <<>> /\ fl_included = <<>>
    /\ fl_excluded = <<>> /\ fl_rules = <<>> /\ fl_result = NoFilterResult
Stage3Off ==
    /\ s3_pc = "off" /\ args = [dry_run |-> FALSE, skip_upload |-> FALSE]
    /\ sys_argv = <<>> /\ dry_run = FALSE /\ csv_exists = FALSE
    /\ csv_rows = <<>> /\ s3_events = <<>> /\ conn_ok = FALSE
    /\ table_exists = FALSE /\ db_columns = {} /\ table = <<>>
    /\ current_count = 0
    /\ pending = <<>> /\ ins_i = 0 /\ statements = <<>> /\ s3_log = <<>>
FetchOff ==
    /\ n_chunks = 0 /\ chunk_i = 0 /\ attempt = 0 /\ ft_chunks = <<>>
    /\ ft_calls = 0 /\ ft_sleeps = <<>> /\ ft_caught = <<>>
ConsolidateOff ==
    /\ cs_pc = "off" /\ cs_arg = <<>> /\ cs_events = <<>> /\ cs_rules = <<>>
    /\ cs_result = <<>>
TransformOff ==
    /\ tr_pc = "off" /\ tr_arg = <<>> /\ tr_raw = <<>> /\ tr_out = <<>>
SplitOff ==
    /\ sp_pc = "off" /\ start_date = <<>> /\ end_date = <<>> /\ current = <<>>
    /\ ranges = <<>>
\* a file that is not there, and a file holding rows
NoFile == [exists |-> FALSE, rows |-> <<>>]
File(rows) == [exists |-> TRUE, rows |-> rows]

PipelineOff ==
    /\ pl_pc = "off" /\ pl_args = [dry_run |-> FALSE, skip_upload |-> FALSE]
    /\ raw_csv = NoFile /\ processed_csv = NoFile /\ pl_table = <<>>
    /\ pl_fetched = <<>> /\ pl_raw_events = <<>> /\ pl_stage2 = ""
    /\ pl_events = <<>> /\ pl_replaced = FALSE
MoreOff == ConsolidateOff /\ TransformOff /\ SplitOff /\ PipelineOff
ExtOff == FilterOff /\ Stage3Off /\ FetchOff /\ MoreOff

\* the shipped value of DATETIME_DEDUP_PRIORITY (line 60)
ShippedPriority == <<>>

Init ==
    /\ pc = "transform"
    /\ input_exists \in BOOLEAN
    /\ raw_events \in (IF input_exists THEN SeqsUpTo(RawPool, MaxRaw) ELSE {<<>>})
    /\ errors = <<>>
    /\ events = <<>>
    /\ run = 1
    /\ first_result = <<>>
    /\ output_file = <<>>
    /\ timestamp = <<>>
    /\ DATETIME_DEDUP_PRIORITY = ShippedPriority
    /\ ResolversOff /\ ExpandOff /\ MergeOff /\ TzOff /\ ExtOff

NotStage2 == UNCHANGED <<DATETIME_DEDUP_PRIORITY, rs_vars, ex_vars, mg_vars, tz_vars, ext_vars>>

\* variant: a missing input file is read as an empty one
InputNotFoundProceeds ==
    /\ pc = "transform"
    /\ ~input_exists
    /\ \E now \in Clock : timestamp' = now
    /\ events' = <<>>
    /\ pc' = "filter"
    /\ UNCHANGED <<raw_events, run, first_result, output_file, input_exists, errors>>
    /\ NotStage2

\* lines 583-585: log.error and return
InputNotFound ==
    /\ pc = "transform"
    /\ ~input_exists
    /\ errors' = Append(errors, "Input not found")
    /\ pc' = "aborted"
    /\ UNCHANGED <<raw_events, events, run, first_result, output_file, timestamp,
                   input_exists>>
    /\ NotStage2

\* variant: the transformed headline is written back into the raw row
TransformInPlace ==
    /\ pc = "transform"
    /\ input_exists
    /\ \E now \in Clock :
          /\ timestamp' = now
          /\ events' = Map(raw_events, LAMBDA raw : transform_event(raw, institutions, now))
          /\ raw_events' = Map(raw_events, LAMBDA raw :
                 [raw EXCEPT !.description =
                      transform_event(raw, institutions, now).event_headline])
    /\ pc' = "filter"
    /\ UNCHANGED <<run, first_result, output_file, input_exists, errors>>
    /\ NotStage2

\* lines 587-594
Transform ==
    /\ pc = "transform"
    /\ input_exists
    /\ \E now \in Clock :
          /\ timestamp' = now
          /\ events' = Map(raw_events, LAMBDA raw : transform_event(raw, institutions, now))
    /\ pc' = "filter"
    /\ UNCHANGED <<raw_events, run, first_result, output_file, input_exists, errors>>
    /\ NotStage2

\* line 596
Filter ==
    /\ pc = "filter"
    /\ events' = filter_events(events)
    /\ pc' = "same_datetime"
    /\ UNCHANGED <<raw_events, run, first_result, output_file, timestamp, input_exists, errors>>
    /\ NotStage2

\* line 601
DedupeSameDatetime ==
    /\ pc = "same_datetime"
    /\ events' = dedupe_same_datetime(events, DATETIME_DEDUP_PRIORITY)
    /\ pc' = "earnings"
    /\ UNCHANGED <<raw_events, run, first_result, output_file, timestamp, input_exists, errors>>
    /\ NotStage2

\* line 607
DedupeEarnings ==
    /\ pc = "earnings"
    /\ events' = dedupe_earnings_by_fiscal_period(events)
    /\ pc' = "consolidate"
    /\ UNCHANGED <<raw_events, run, first_result, output_file, timestamp, input_exists, errors>>
    /\ NotStage2

\* line 613
Consolidate ==
    /\ pc = "consolidate"
    /\ events' = consolidate_events(events, DEDUP_RULES, RENAME_RULES)
    /\ pc' = "sort"
    /\ UNCHANGED <<raw_events, run, first_result, output_file, timestamp, input_exists, errors>>
    /\ NotStage2

\* csv.DictWriter(fieldnames=OUTPUT_SCHEMA, extrasaction="ignore")
OutputRow(e) ==
    [event_id |-> e.event_id, ticker |-> e.ticker,
     institution_name |-> e.institution_name, institution_id |-> e.institution_id,
     institution_type |-> e.institution_type, event_type |-> e.event_type,
     event_headline |-> e.event_headline,
     event_date_time_utc |-> e.event_date_time_utc,
     event_date_time_local |-> e.event_date_time_local,
     event_date |-> e.event_date, event_time_local |-> e.event_time_local,
     webcast_link |-> e.webcast_link, contact_info |-> e.contact_info,
     fiscal_year |-> e.fiscal_year, fiscal_period |-> e.fiscal_period,
     data_fetched_timestamp |-> e.data_fetched_timestamp]

\* variant: the list is saved in the order the consolidator left it
SaveUnsorted ==
    /\ pc = "sort"
    /\ events' = events
    /\ output_file' = IF events' = <<>> THEN output_file ELSE Map(events', OutputRow)
    /\ first_result' = IF run = 1
                       THEN <<[events |-> events', timestamp |-> timestamp]>>
                       ELSE first_result
    /\ pc' = "done"
    /\ UNCHANGED <<raw_events, run, timestamp, input_exists, errors>>
    /\ NotStage2

\* lines 621-622: events.sort(...) then save_events, which writes nothing
\* for an empty list
SortAndSave ==
    /\ pc = "sort"
    /\ events' = SortBy(events, LAMBDA a, b : LexLess(a.event_date_time_utc,
                                                      b.event_date_time_utc))
    /\ output_file' = IF events' = <<>> THEN output_file ELSE Map(events', OutputRow)
    /\ first_result' = IF run = 1
                       THEN <<[events |-> events', timestamp |-> timestamp]>>
                       ELSE first_result
    /\ pc' = "done"
    /\ UNCHANGED <<raw_events, run, timestamp, input_exists, errors>>
    /\ NotStage2

\* main() is run again on the same input file
Rerun ==
    /\ pc = "done" /\ run = 1
    /\ run' = 2
    /\ pc' = "transform"
    /\ events' = <<>>
    /\ UNCHANGED <<raw_events, first_result, output_file, timestamp, input_exists, errors>>
    /\ NotStage2

Next ==
    \/ InputNotFound \/ Transform \/ Filter \/ DedupeSameDatetime \/ DedupeEarnings
    \/ Consolidate \/ SortAndSave \/ Rerun

Spec == Init /\ [][Next]_vars

----------------------------------------------------------------------------
(* The resolvers called on their own, on any list of processed records     *)

T_APR == <<2024, 4, 30>>
T_MAY == <<2024, 5, 28>>

\* isoformat of noon UTC on a date ("" for no date)
NoonUtc(date) == IF date = <<>> THEN <<>> ELSE date \o <<12, 0, 0>>

EarningsPool ==
    {Ev(t, "Earnings", NoonUtc(d), d, "2024", "Q2", lm) :
        t \in {RY_CA, TD_CA}, d \in {<<>>, T_APR, T_MAY}, lm \in {<<>>, <<1>>, <<2>>}}
    \cup {Ev(t, "Earnings", NoonUtc(T_MAY), T_MAY, "", "Q2", <<1>>) : t \in {RY_CA, TD_CA}}
    \cup {Ev(TD_CA, "Earnings", NoonUtc(T_APR), T_APR, "2024", "Q3", <<1>>)}
    \cup {Ev(t, "Dividend", NoonUtc(T_MAY), T_MAY, "2024", "Q2", <<1>>) : t \in {RY_CA, TD_CA}}

SameDatetimePool ==
    {Ev(t, ty, NoonUtc(d), d, "", "", <<>>) :
        t \in {RY_CA, TD_CA},
        ty \in {"Earnings", "ConfirmedEarningsRelease", "ProjectedEarningsRelease", "Dividend"},
        d \in {<<>>, T_APR, T_MAY}}

\* the priority list of the earlier revision of stage 2
\* (stage_2_data_processing/main_data_processing.py:32)
EARNINGS_PRIORITY == <<"Earnings", "ConfirmedEarningsRelease", "ProjectedEarningsRelease">>

NotResolvers == UNCHANGED <<stage2_vars, ex_vars, mg_vars, tz_vars, ext_vars>>

InitEarnings ==
    /\ rs_op = "idle"
    /\ rs_events \in SeqsUpTo(EarningsPool, MaxEvents)
    /\ rs_result = <<>>
    /\ rs_methods = <<>>
    /\ DATETIME_DEDUP_PRIORITY = ShippedPriority
    /\ Stage2Off /\ ExpandOff /\ MergeOff /\ TzOff /\ ExtOff

CallDedupeEarnings ==
    /\ rs_op = "idle"
    /\ rs_result' = dedupe_earnings_by_fiscal_period(rs_events)
    /\ rs_methods' = EarningsResolutions(rs_events)
    /\ rs_op' = "earnings"
    /\ UNCHANGED <<rs_events, DATETIME_DEDUP_PRIORITY>>
    /\ NotResolvers

NextEarnings == CallDedupeEarnings

SpecEarnings == InitEarnings /\ [][NextEarnings]_vars

InitSameDatetime ==
    /\ rs_op = "idle"
    /\ rs_events \in SeqsUpTo(SameDatetimePool, MaxEvents)
    /\ rs_result = <<>>
    /\ rs_methods = <<>>
    /\ DATETIME_DEDUP_PRIORITY \in {ShippedPriority, EARNINGS_PRIORITY}
    /\ Stage2Off /\ ExpandOff /\ MergeOff /\ TzOff /\ ExtOff

CallDedupeSameDatetime ==
    /\ rs_op = "idle"
    /\ rs_result' = dedupe_same_datetime(rs_events, DATETIME_DEDUP_PRIORITY)
    /\ rs_op' = "same_datetime"
    /\ UNCHANGED <<rs_events, rs_methods, DATETIME_DEDUP_PRIORITY>>
    /\ NotResolvers

NextSameDatetime == CallDedupeSameDatetime

SpecSameDatetime == InitSameDatetime /\ [][NextSameDatetime]_vars

----------------------------------------------------------------------------
(* Claims about the fiscal-period resolver                                 *)

\* positions of list s holding Earnings records of fiscal key (t, fy, fp)
EarningsAt(s, t, fy, fp) ==
    {i \in 1..Len(s) : /\ s[i].event_type = "Earnings"
                       /\ s[i].ticker = t
                       /\ s[i].fiscal_year = fy
                       /\ s[i].fiscal_period = fp}

\* C1: every (ticker, fiscal_year, fiscal_period) key with both fiscal fields
\* non-empty that occurs among the input's Earnings records has exactly one
\* Earnings record in the output of dedupe_earnings_by_fiscal_period, and
\* that record is one of the key's input records.
C1_OneSurvivorPerFiscalKey ==
    rs_op = "earnings" =>
        \A i \in 1..Len(rs_events) :
            LET e == rs_events[i] IN
            (e.event_type = "Earnings" /\ e.fiscal_year # "" /\ e.fiscal_period # "") =>
                LET out == EarningsAt(rs_result, e.ticker, e.fiscal_year, e.fiscal_period)
                    inp == EarningsAt(rs_events, e.ticker, e.fiscal_year, e.fiscal_period)
                IN  /\ Cardinality(out) = 1
                    /\ \A j \in out : \E k \in inp : rs_events[k] = rs_result[j]

\* a group of three records of one key, spread over two months, next to a
\* second ticker's record: one survivor per key
C1_Witness ==
    /\ rs_op = "earnings"
    /\ Len(rs_events) = 3
    /\ Cardinality(EarningsAt(rs_events, RY_CA, "2024", "Q2")) = 2
    /\ Cardinality(EarningsAt(rs_events, TD_CA, "2024", "Q2")) = 1
    /\ EarningsAt(rs_events, RY_CA, "2024", "Q2") = {1, 2}
    /\ rs_events[1].event_date = T_APR /\ rs_events[2].event_date = T_MAY
    /\ Len(rs_result) = 2

\* C9: peer comparison chooses a winner only for a group of at least two
\* records spanning at least two distinct non-empty months; a ticker's sole
\* record for a fiscal period is kept as it is, whatever the other tickers'
\* months are.
C9_PeersOnlyForMultiMonthGroups ==
    rs_op = "earnings" =>
        /\ \A k \in 1..Len(rs_methods) :
              rs_methods[k].method = "peer_comparison" =>
                LET w   == rs_methods[k].winner
                    grp == EarningsAt(rs_events, w.ticker, w.fiscal_year, w.fiscal_period)
                    mon == {SubSeq(rs_events[i].event_date, 1, 2) :
                               i \in {j \in grp : rs_events[j].event_date # <<>>}}
                IN  Cardinality(grp) >= 2 /\ Cardinality(mon) >= 2
        /\ \A i \in 1..Len(rs_events) :
              LET e == rs_events[i] IN
              (/\ e.event_type = "Earnings" /\ e.fiscal_year # "" /\ e.fiscal_period # ""
               /\ EarningsAt(rs_events, e.ticker, e.fiscal_year, e.fiscal_period) = {i}) =>
                  /\ \E j \in 1..Len(rs_result) : rs_result[j] = e
                  /\ \A k \in 1..Len(rs_methods) :
                        rs_methods[k].winner = e => rs_methods[k].method = "single"

\* TD's sole Q2 record falls in April while RY's two records are in May:
\* it is kept and no peer comparison takes place
C9_Witness ==
    /\ rs_op = "earnings"
    /\ EarningsAt(rs_events, TD_CA, "2024", "Q2") = {1}
    /\ rs_events[1].event_date = T_APR
    /\ EarningsAt(rs_events, RY_CA, "2024", "Q2") = {2, 3}
    /\ rs_events[2].event_date = T_MAY /\ rs_events[3].event_date = T_MAY
    /\ rs_result[1] = rs_events[1]
    /\ Len(rs_result) = 2
    /\ \A k \in 1..Len(rs_methods) : rs_methods[k].method # "peer_comparison"

----------------------------------------------------------------------------
(* Claims about the same-instant resolver                                  *)

OnList(e) == InList(e.event_type, DATETIME_DEDUP_PRIORITY)

\* positions of list s holding listed records of (ticker, instant)
ListedAt(s, t, utc) ==
    {i \in 1..Len(s) : OnList(s[i]) /\ s[i].ticker = t /\ s[i].event_date_time_utc = utc}

\* C8: with a non-empty priority list every group of two or more listed
\* records sharing (ticker, UTC instant) leaves exactly one record, of the
\* group's smallest priority index; records of unlisted categories are all
\* kept; with an empty list the input is returned unchanged.
C8_SameInstantKeepsHighestPriority ==
    rs_op = "same_datetime" =>
        IF DATETIME_DEDUP_PRIORITY = <<>> THEN rs_result = rs_events
        ELSE
          /\ \A i \in 1..Len(rs_events) :
                LET e   == rs_events[i]
                    grp == ListedAt(rs_events, e.ticker, e.event_date_time_utc)
                    out == ListedAt(rs_result, e.ticker, e.event_date_time_utc)
                IN  (OnList(e) /\ Cardinality(grp) >= 2) =>
                      /\ Cardinality(out) = 1
                      /\ \A j \in out : \A k \in grp :
                            IndexOf(rs_result[j].event_type, DATETIME_DEDUP_PRIORITY)
                              <= IndexOf(rs_events[k].event_type, DATETIME_DEDUP_PRIORITY)
                      /\ \A j \in out : \E k \in grp : rs_events[k] = rs_result[j]
          /\ SelectSeq(rs_result, LAMBDA e : ~OnList(e))
               = SelectSeq(rs_events, LAMBDA e : ~OnList(e))

\* Earnings, ConfirmedEarningsRelease and ProjectedEarningsRelease at one
\* ticker and instant leave only the Earnings record
C8_Witness ==
    /\ rs_op = "same_datetime"
    /\ DATETIME_DEDUP_PRIORITY = EARNINGS_PRIORITY
    /\ Len(rs_events) = 3
    /\ {rs_events[i].event_type : i \in 1..3} = Range(EARNINGS_PRIORITY)
    /\ rs_events[1].event_type = "ProjectedEarningsRelease"
    /\ \A i \in 1..3 : rs_events[i].ticker = RY_CA /\ rs_events[i].event_date_time_utc = NoonUtc(T_MAY)
    /\ Len(rs_result) = 1
    /\ rs_result[1].event_type = "Earnings"

----------------------------------------------------------------------------
(* Claims about the whole of stage 2                                       *)

\* the reconciliation key of a record: (ticker, event_type, fiscal year and
\* period when both are present, otherwise event_date)
ReconKey(e) ==
    IF e.fiscal_year # "" /\ e.fiscal_period # ""
    THEN <<e.ticker, e.event_type, "fiscal", e.fiscal_year, e.fiscal_period, <<>>>>
    ELSE <<e.ticker, e.event_type, "date", "", "", e.event_date>>

\* C2 as stated: after the full pipeline no two output records share a
\* reconciliation key, whatever their category.
C2_NoTwoShareReconKey ==
    pc = "done" =>
        \A i, j \in 1..Len(events) : i # j => ReconKey(events[i]) # ReconKey(events[j])

\* the rows as the resolvers see them (ticker and fiscal year normalized)
Transformed == Map(raw_events, LAMBDA raw : transform_event(raw, institutions, timestamp))

\* C2 as amended: after the full pipeline, for every (ticker, fiscal year,
\* fiscal period) with both fiscal fields present that occurs among the
\* input's Earnings records, exactly one Earnings record of that key is in
\* the output; other categories are not deduplicated.
C2_OneEarningsPerFiscalKey ==
    pc = "done" =>
        \A i \in 1..Len(raw_events) :
            LET e == Transformed[i] IN
            (e.event_type = "Earnings" /\ e.fiscal_year # "" /\ e.fiscal_period # "") =>
                Cardinality(EarningsAt(events, e.ticker, e.fiscal_year, e.fiscal_period)) = 1

\* RY-US and RY-CA rows for the same quarter, dated and undated: one is left
C2_Witness ==
    /\ pc = "done"
    /\ Len(raw_events) = 2
    /\ raw_events[1].ticker = RY_US /\ raw_events[2].ticker = RY_CA
    /\ raw_events[1].event_date_time = NoTimestamp
    /\ raw_events[2].event_date_time # NoTimestamp
    /\ EarningsAt(Transformed, RY_CA, "2024", "Q2") = {1, 2}
    /\ Len(events) = 1

----------------------------------------------------------------------------
(* Stage 1: expand_canadian_tickers (data_acquisition.py:67-98)            *)

MaxTickers == 3    \* length of the monitored ticker list
MaxFetched == 2    \* events returned by the provider

BMO_CA == Tk("BMO", "-CA")
BMO_US == Tk("BMO", "-US")
JPM_US == Tk("JPM", "-US")

TickerPool == {BMO_CA, BMO_US, JPM_US, Tk("V", "")}

\* variant: the alternate is appended without looking at `expanded`
expand_step_unguarded(st, ticker) ==
    LET exp1 == IF InList(ticker, st.expanded) THEN st.expanded
                ELSE Append(st.expanded, ticker)
        map1 == (ticker :> ticker) @@ st.variant_map
    IN  IF ticker.sfx = "-CA"
        THEN LET us_variant == Tk(ticker.base, "-US")
             IN  [expanded    |-> Append(exp1, us_variant),
                  variant_map |-> (us_variant :> ticker) @@ map1]
        ELSE [expanded |-> exp1, variant_map |-> map1]

\* the body of the loop at lines 86-96
expand_step(st, ticker) ==
    LET exp1 == IF InList(ticker, st.expanded) THEN st.expanded
                ELSE Append(st.expanded, ticker)
        map1 == (ticker :> ticker) @@ st.variant_map
    IN  IF ticker.sfx = "-CA"
        THEN LET us_variant == Tk(ticker.base, "-US")
             IN  [expanded    |-> IF InList(us_variant, exp1) THEN exp1
                                  ELSE Append(exp1, us_variant),
                  variant_map |-> (us_variant :> ticker) @@ map1]
        ELSE [expanded |-> exp1, variant_map |-> map1]

RECURSIVE ExpandFrom(_, _)
ExpandFrom(st, ts) ==
    IF ts = <<>> THEN st ELSE ExpandFrom(expand_step(st, Head(ts)), Tail(ts))

expand_canadian_tickers(ts) == ExpandFrom([expanded |-> <<>>, variant_map |-> <<>>], ts)

NotExpand == UNCHANGED <<stage2_vars, DATETIME_DEDUP_PRIORITY, rs_vars, mg_vars, tz_vars, ext_vars>>

InitExpand ==
    /\ tickers \in SeqsUpTo(TickerPool, MaxTickers)
    /\ ex_i = 1
    /\ expanded = <<>>
    /\ variant_map = <<>>
    /\ DATETIME_DEDUP_PRIORITY = ShippedPriority
    /\ Stage2Off /\ ResolversOff /\ MergeOff /\ TzOff /\ ExtOff

\* one iteration of `for ticker in tickers`
ExpandStep ==
    /\ ex_i <= Len(tickers)
    /\ LET st == expand_step([expanded |-> expanded, variant_map |-> variant_map],
                             tickers[ex_i])
       IN  /\ expanded' = st.expanded
           /\ variant_map' = st.variant_map
    /\ ex_i' = ex_i + 1
    /\ UNCHANGED tickers
    /\ NotExpand

NextExpand == ExpandStep

SpecExpand == InitExpand /\ [][NextExpand]_vars

ExpandDone == ex_i = Len(tickers) + 1

----------------------------------------------------------------------------
(* Claims about expand_canadian_tickers                                    *)

Occurrences(x, s) == Cardinality({i \in 1..Len(s) : s[i] = x})

Reorderings(s) ==
    {[i \in 1..Len(s) |-> s[p[i]]] :
        p \in {q \in [1..Len(s) -> 1..Len(s)] : \A a, b \in 1..Len(s) : q[a] = q[b] => a = b}}

\* C6: every input identifier maps to itself, the keys of the VariantMap
\* are exactly the elements of the expanded list, every synthesized
\* alternate maps to one canonical (input) identifier, and the map does not
\* depend on the order of the input list.
C6_VariantMapWellFormed ==
    ExpandDone =>
        /\ \A i \in 1..Len(tickers) : variant_map[tickers[i]] = tickers[i]
        /\ DOMAIN variant_map = Range(expanded)
        /\ \A k \in DOMAIN variant_map \ Range(tickers) : variant_map[k] \in Range(tickers)
        /\ \A r \in Reorderings(tickers) :
              expand_canadian_tickers(r).variant_map = variant_map

----------------------------------------------------------------------------
(* Stage 1: merge_variant_events (data_acquisition.py:101-191)             *)

\* str(event_date_time): "" for None
StrOf(ts) ==
    IF ts.kind = "none" THEN <<>>
    ELSE IsoFormat(<<ts.y, ts.m, ts.d, ts.h>>, ParsedOffset(ts))

\* step 1 (lines 123-138): the event with its ticker and description
\* remapped, together with its _original_ticker
Remap(event, vmap) ==
    LET original  == event.ticker
        canonical == IF original \in DOMAIN vmap THEN vmap[original] ELSE original
    IN  [event    |-> IF original # canonical
                      THEN [event EXCEPT
                               !.ticker = canonical,
                               !.description =
                                   IF Contains(event.description, original)
                                   THEN Replace(event.description, original, canonical)
                                   ELSE event.description]
                      ELSE event,
         original |-> original]

\* step 2 (lines 145-158): the deduplication key of a remapped event
MergeKey(r) ==
    LET e == r.event IN
    IF e.fiscal_year # "" /\ e.fiscal_period # ""
    THEN [ticker |-> e.ticker, event_type |-> e.event_type, kind |-> "fiscal",
          fy |-> e.fiscal_year, fp |-> e.fiscal_period, date |-> <<>>]
    ELSE [ticker |-> e.ticker, event_type |-> e.event_type, kind |-> "_date_",
          fy |-> "", fp |-> "",
          date |-> IF e.event_date_time.kind = "none" THEN <<>>
                   ELSE SubSeq(StrOf(e.event_date_time), 1, 3)]

\* variant: completeness is compared before the source
score_completeness_first(r) ==
    LET e == r.event
        is_canonical == IF e.ticker = r.original THEN 1 ELSE 0
        has_webcast  == IF e.webcast_link # "" THEN 1 ELSE 0
        has_contact  == IF e.contact_email # "" \/ e.contact_phone # "" THEN 1 ELSE 0
    IN  <<has_webcast + has_contact, is_canonical>> \o StrOf(e.event_date_time)

\* variant: a contact name alone counts as a contact
score_with_contact_name(r) ==
    LET e == r.event
        is_canonical == IF e.ticker = r.original THEN 1 ELSE 0
        has_webcast  == IF e.webcast_link # "" THEN 1 ELSE 0
        has_contact  == IF e.contact_name # "" \/ e.contact_email # ""
                           \/ e.contact_phone # "" THEN 1 ELSE 0
    IN  <<is_canonical, has_webcast + has_contact>> \o StrOf(e.event_date_time)

\* lines 170-175; the tuple and the string are one sequence, compared
\* lexicographically as Python compares the tuple
score(r) ==
    LET e == r.event
        is_canonical == IF e.ticker = r.original THEN 1 ELSE 0
        has_webcast  == IF e.webcast_link # "" THEN 1 ELSE 0
        has_contact  == IF e.contact_email # "" \/ e.contact_phone # "" THEN 1 ELSE 0
    IN  <<is_canonical, has_webcast + has_contact>> \o StrOf(e.event_date_time)

\* variant: the group is sorted ascending
best_of_group_ascending(group) ==
    IF Len(group) = 1 THEN group[1]
    ELSE SortBy(group, LAMBDA a, b : LexLess(score(a), score(b)))[1]

\* lines 165-178: group.sort(key=score, reverse=True); best = group[0]
best_of_group(group) ==
    IF Len(group) = 1 THEN group[1]
    ELSE SortBy(group, LAMBDA a, b : LexLess(score(b), score(a)))[1]

\* the winners of all groups, in key order, each with its _original_ticker
MergeWinners(evs, vmap) ==
    LET remapped == Map(evs, LAMBDA e : Remap(e, vmap))
    IN  Map(FirstIdx(remapped, MergeKey),
            LAMBDA i : best_of_group(SelectSeq(remapped,
                           LAMBDA r : MergeKey(r) = MergeKey(remapped[i]))))

\* the returned list: the winners after the cleanup of lines 185-186
merge_variant_events(evs, vmap) ==
    IF evs = <<>> THEN <<>>
    ELSE Map(MergeWinners(evs, vmap), LAMBDA r : r.event)

\* an event as the provider returns it
ApiEv(ticker, fy, fp, webcast, contact, ts) ==
    [event_id |-> "", ticker |-> ticker, event_type |-> "Earnings",
     event_date_time |-> ts, description |-> <<ticker, Word("earnings")>>,
     webcast_link |-> webcast,
     contact_name |-> IF contact = "name" THEN "IR desk" ELSE "",
     contact_phone |-> "",
     contact_email |-> IF contact = "email" THEN "ir@bank" ELSE "",
     fiscal_year |-> fy, fiscal_period |-> fp,
     market_time_code |-> "", last_modified_date |-> <<>>]

TS_EARLY == Timestamp(2024, 2, 27, 12, <<0>>)
TS_LATE  == Timestamp(2024, 2, 27, 14, <<0>>)

\* query_chunk keeps only events whose ticker is among the query tickers
FetchPool(query_tickers) ==
    {ApiEv(t, f[1], f[2], w, c, ts) :
        t \in Range(query_tickers),
        f \in {<<"2024", "Q1">>, <<"", "">>},
        w \in {"", "https://webcast"},
        c \in {"none", "name", "email"},
        ts \in {TS_EARLY, TS_LATE}}

LB_CA == Tk("LB", "-CA")
LB_US == Tk("LB", "-US")

MonitoredLists == {<<BMO_CA, JPM_US>>, <<BMO_CA, BMO_US>>, <<LB_CA>>}

NotMerge == UNCHANGED <<stage2_vars, DATETIME_DEDUP_PRIORITY, rs_vars, ex_vars, tz_vars, ext_vars>>

\* fetch_events after the chunks are queried (lines 341-354): the tickers
\* are expanded and some events have come back
InitMerge ==
    /\ tickers \in MonitoredLists
    /\ ex_i = Len(tickers) + 1
    /\ expanded = expand_canadian_tickers(tickers).expanded
    /\ variant_map = expand_canadian_tickers(tickers).variant_map
    /\ mg_pc = "fetched"
    /\ mg_events \in SeqsUpTo(FetchPool(expanded), MaxFetched)
    /\ mg_result = <<>>
    /\ mg_kept = <<>>
    /\ DATETIME_DEDUP_PRIORITY = ShippedPriority
    /\ Stage2Off /\ ResolversOff /\ TzOff /\ ExtOff

\* line 353: events = merge_variant_events(events, variant_map)
Merge ==
    /\ mg_pc = "fetched"
    /\ mg_result' = merge_variant_events(mg_events, variant_map)
    /\ mg_kept' = IF mg_events = <<>> THEN <<>>
                  ELSE Map(MergeWinners(mg_events, variant_map), LAMBDA r : r.original)
    /\ mg_pc' = "merged"
    /\ UNCHANGED mg_events
    /\ NotMerge

NextMerge == Merge

SpecMerge == InitMerge /\ [][NextMerge]_vars

----------------------------------------------------------------------------
(* Claims about merge_variant_events                                       *)

\* the canonical ticker of a fetched event
CanonicalOf(e) ==
    IF e.ticker \in DOMAIN variant_map THEN variant_map[e.ticker] ELSE e.ticker

\* the calendar date of a provider instant ("" for None)
DateOf(ts) == IF ts.kind = "none" THEN <<>> ELSE <<ts.y, ts.m, ts.d>>

\* do the event e, filed under canonical ticker t, and the event f, filed
\* under u, fall in one duplicate-key group
SameGroup(t, e, u, f) ==
    /\ t = u
    /\ e.event_type = f.event_type
    /\ LET ef == e.fiscal_year # "" /\ e.fiscal_period # ""
           ff == f.fiscal_year # "" /\ f.fiscal_period # ""
       IN  IF ef /\ ff
           THEN e.fiscal_year = f.fiscal_year /\ e.fiscal_period = f.fiscal_period
           ELSE ~ef /\ ~ff /\ DateOf(e.event_date_time) = DateOf(f.event_date_time)

\* completeness as the design states it: a webcast URL, any contact field
Completeness(e) ==
    (IF e.webcast_link # "" THEN 1 ELSE 0)
    + (IF e.contact_name # "" \/ e.contact_phone # "" \/ e.contact_email # "" THEN 1 ELSE 0)

\* completeness as score() counts it: a webcast URL, a phone or an e-mail
CompletenessScored(e) ==
    (IF e.webcast_link # "" THEN 1 ELSE 0)
    + (IF e.contact_phone # "" \/ e.contact_email # "" THEN 1 ELSE 0)

\* input event k strictly dominates the survivor at position j of the result
Dominates(k, j) ==
    LET e == mg_events[k]
        w == mg_result[j]
    IN  /\ \/ Completeness(e) > Completeness(w)
           \/ CompletenessScored(e) > CompletenessScored(w)
        /\ CanonicalOf(e) = e.ticker
        /\ mg_kept[j] # w.ticker
        /\ LexLess(StrOf(w.event_date_time), StrOf(e.event_date_time))

\* C3: every duplicate-key group of the input leaves exactly one record in
\* the result of merge_variant_events, and no record of the group strictly
\* dominates it (higher completeness, canonical source against a
\* non-canonical survivor, later instant).
C3_OneUndominatedSurvivorPerGroup ==
    mg_pc = "merged" =>
        \A i \in 1..Len(mg_events) :
            LET out == {j \in 1..Len(mg_result) :
                           SameGroup(CanonicalOf(mg_events[i]), mg_events[i],
                                     mg_result[j].ticker, mg_result[j])}
            IN  /\ Cardinality(out) = 1
                /\ \A j \in out : \A k \in 1..Len(mg_events) :
                      SameGroup(CanonicalOf(mg_events[k]), mg_events[k],
                                mg_result[j].ticker, mg_result[j])
                        => ~Dominates(k, j)

\* a bare BMO-US record and a later, complete BMO-CA record of the same
\* quarter: the BMO-CA record is the one left
C3_Witness ==
    /\ mg_pc = "merged"
    /\ BMO_US \in DOMAIN variant_map
    /\ variant_map[BMO_US] = BMO_CA
    /\ Len(mg_events) = 2
    /\ mg_events[1] = ApiEv(BMO_US, "2024", "Q1", "", "none", TS_EARLY)
    /\ mg_events[2] = ApiEv(BMO_CA, "2024", "Q1", "https://webcast", "email", TS_LATE)
    /\ mg_result = <<mg_events[2]>>

\* the scenario: one record fetched under BMO-CA without a webcast URL (at
\* position i), one fetched under BMO-US with a webcast URL (at position
\* j), both Earnings of the same fiscal year and period, BMO-US being a
\* variant of BMO-CA
Scenario(i, j) ==
    /\ mg_pc = "merged"
    /\ BMO_US \in DOMAIN variant_map /\ variant_map[BMO_US] = BMO_CA
    /\ Len(mg_events) = 2
    /\ {i, j} = {1, 2}
    /\ mg_events[i].ticker = BMO_CA /\ mg_events[i].webcast_link = ""
    /\ mg_events[j].ticker = BMO_US /\ mg_events[j].webcast_link # ""
    /\ mg_events[i].event_type = "Earnings" /\ mg_events[j].event_type = "Earnings"
    /\ mg_events[i].fiscal_year # "" /\ mg_events[i].fiscal_period # ""
    /\ mg_events[i].fiscal_year = mg_events[j].fiscal_year
    /\ mg_events[i].fiscal_period = mg_events[j].fiscal_period

\* C4 as stated: in the scenario the resolver returns one record carrying
\* the BMO-US record's content, relabelled BMO-CA.
C4_VariantContentWins ==
    \A i, j \in 1..2 :
        Scenario(i, j) =>
            mg_result = <<[mg_events[j] EXCEPT
                              !.ticker = BMO_CA,
                              !.description = <<BMO_CA, Word("earnings")>>]>>

\* C4 as amended: in the scenario the resolver returns one record, the
\* record fetched under BMO-CA, unchanged: the canonical source outranks
\* completeness.
C4_CanonicalSourceWins ==
    \A i, j \in 1..2 :
        Scenario(i, j) => mg_result = <<mg_events[i]>> /\ mg_kept = <<BMO_CA>>

C4_Witness ==
    /\ Scenario(2, 1)
    /\ mg_events[1] = ApiEv(BMO_US, "2024", "Q1", "https://webcast", "none", TS_EARLY)
    /\ mg_events[2] = ApiEv(BMO_CA, "2024", "Q1", "", "none", TS_EARLY)
    /\ mg_result = <<mg_events[2]>>

----------------------------------------------------------------------------
(* convert_timezone called on its own                                      *)

TzDates   == {<<2024, 1, 1>>, <<2024, 3, 10>>, <<2024, 3, 15>>, <<2024, 5, 1>>,
              <<2024, 11, 3>>, <<2024, 12, 31>>}
TzHours   == {0, 3, 7, 22}
TzOffsets == {<<>>, <<0>>, <<-5>>, <<9>>}

TzPool == {NoTimestamp, BadTimestamp}
          \cup {Timestamp(dd[1], dd[2], dd[3], h, z) : dd \in TzDates, h \in TzHours, z \in TzOffsets}

NotTz == UNCHANGED <<stage2_vars, DATETIME_DEDUP_PRIORITY, rs_vars, ex_vars, mg_vars, ext_vars>>

InitTz ==
    /\ tz_pc = "idle"
    /\ tz_in \in TzPool
    /\ tz_flag \in BOOLEAN
    /\ tz_out = EmptyTimes
    /\ DATETIME_DEDUP_PRIORITY = ShippedPriority
    /\ Stage2Off /\ ResolversOff /\ ExpandOff /\ MergeOff /\ ExtOff

CallConvertTimezone ==
    /\ tz_pc = "idle"
    /\ tz_out' = convert_timezone(tz_in, tz_flag)
    /\ tz_pc' = "done"
    /\ UNCHANGED <<tz_in, tz_flag>>
    /\ NotTz

NextTz == CallConvertTimezone

SpecTz == InitTz /\ [][NextTz]_vars

\* C10: for every parseable timestamp converted with the unconfirmed flag
\* set, the returned local date is the UTC calendar date of the instant,
\* whatever offset the string carries, and the time label is
\* "00:00 <zone abbreviation>".
C10_UnconfirmedKeepsUtcDate ==
    (tz_pc = "done" /\ tz_flag /\ tz_in.kind = "ts") =>
        /\ tz_out.date = SubSeq(UtcWall(tz_in), 1, 3)
        /\ Len(tz_out.time) = 3
        /\ tz_out.time[1] = 0 /\ tz_out.time[2] = 0
        /\ tz_out.time[3] \in {"EST", "EDT"}

----------------------------------------------------------------------------
(* filter_events called on its own, under edited configuration tables      *)

\* categories of the records handed to the filter; "Mystery" and "" (a
\* record without event_type) are on no list
FilterTypes == {"Earnings", "ConfirmedEarningsRelease", "SalesRevenueRelease",
                "Mystery", ""}

FilterPool == {Ev(RY_CA, t, <<>>, <<>>, "", "", <<n>>) : t \in FilterTypes, n \in 1..2}

\* the shipped tables, and tables edited so that a category is on the
\* deny-list and also included, a rename source or a dedup source
IncludedChoices == {INCLUDED_EVENT_TYPES,
                    INCLUDED_EVENT_TYPES \o <<"ConfirmedEarningsRelease">>}
ExcludedChoices == {EXCLUDED_EVENT_TYPES,
                    EXCLUDED_EVENT_TYPES \o <<"SalesRevenueRelease">>}
RulesChoices == {DEDUP_RULES,
                 <<[target |-> "Earnings",
                    sources |-> <<"Earnings", "ConfirmedEarningsRelease">>]>>}

NotFilter == UNCHANGED <<stage2_vars, DATETIME_DEDUP_PRIORITY, rs_vars, ex_vars,
                         mg_vars, tz_vars, s3_vars, ft_vars, more_vars>>

InitFilter ==
    /\ fl_pc = "idle"
    /\ fl_events \in SeqsUpTo(FilterPool, MaxEvents)
    /\ fl_included \in IncludedChoices
    /\ fl_excluded \in ExcludedChoices
    /\ fl_rules \in RulesChoices
    /\ fl_result = NoFilterResult
    /\ DATETIME_DEDUP_PRIORITY = ShippedPriority
    /\ Stage2Off /\ ResolversOff /\ ExpandOff /\ MergeOff /\ TzOff /\ Stage3Off
    /\ FetchOff /\ MoreOff

CallFilterEvents ==
    /\ fl_pc = "idle"
    /\ fl_result' = FilterLoop(fl_events, fl_included, fl_excluded, fl_rules,
                               RENAME_RULES)
    /\ fl_pc' = "done"
    /\ UNCHANGED <<fl_events, fl_included, fl_excluded, fl_rules>>
    /\ NotFilter

NextFilter == CallFilterEvents

SpecFilter == InitFilter /\ [][NextFilter]_vars

OnAllowList(t) ==
    \/ InList(t, fl_included)
    \/ \E i \in 1..Len(fl_rules) : InList(t, fl_rules[i].sources)
    \/ t \in DOMAIN RENAME_RULES

OnDenyList(t) == InList(t, fl_excluded)

\* positions of the argument with a given fate
KeptAt    == {i \in 1..Len(fl_events) : /\ OnAllowList(fl_events[i].event_type)
                                        /\ ~OnDenyList(fl_events[i].event_type)}
DeniedAt  == {i \in 1..Len(fl_events) : OnDenyList(fl_events[i].event_type)}
UnknownAt == {i \in 1..Len(fl_events) : /\ ~OnAllowList(fl_events[i].event_type)
                                        /\ ~OnDenyList(fl_events[i].event_type)}

\* d equals the tally of the categories found at the positions of set at
TallyOf(d, at) ==
    /\ DOMAIN d = {fl_events[i].event_type : i \in at}
    /\ \A t \in DOMAIN d :
          d[t] = Cardinality({i \in at : fl_events[i].event_type = t})

\* C11: filter_events returns, in input order, exactly the records whose
\* category is on the allow-list (included, or a source of a dedup or rename
\* rule) and not on the deny-list; a deny-listed category is dropped even
\* when it is also on the allow-list; the deny-list drops and the
\* unknown-category drops are counted in two separate tallies, and a record
\* of unknown category is only dropped: the call returns for every batch.
C11_FilterKeepsAllowedNotDenied ==
    fl_pc = "done" =>
        /\ Len(fl_result.filtered) = Cardinality(KeptAt)
        /\ \A i \in KeptAt :
              fl_result.filtered[Cardinality({j \in KeptAt : j <= i})] = fl_events[i]
        /\ TallyOf(fl_result.explicitly_excluded_counts, DeniedAt)
        /\ TallyOf(fl_result.excluded_counts, UnknownAt)

\* a batch with a category on both lists, an unknown one and an allowed one
C11_Witness ==
    /\ fl_pc = "done"
    /\ Len(fl_events) = 3
    /\ fl_events[1].event_type = "ConfirmedEarningsRelease"
    /\ InList("ConfirmedEarningsRelease", fl_included)
    /\ fl_events[2].event_type = "Mystery"
    /\ fl_events[3].event_type = "Earnings"
    /\ fl_result.filtered = <<fl_events[3]>>
    /\ fl_result.explicitly_excluded_counts["ConfirmedEarningsRelease"] = 1
    /\ fl_result.excluded_counts["Mystery"] = 1

----------------------------------------------------------------------------
(* Claims about the order of stage 2 and what it hands to the writer       *)

\* the successive positions of main() when the input file exists
StageOrder == <<"transform", "filter", "same_datetime", "earnings",
                "consolidate", "sort", "done">>

\* list t holds the records of list s, each as often as s does
SameRecords(s, t) ==
    /\ Len(s) = Len(t)
    /\ \A e \in Range(s) \cup Range(t) :
          Cardinality({i \in 1..Len(s) : s[i] = e})
              = Cardinality({i \in 1..Len(t) : t[i] = e})

\* ascending by the UTC instant compared as a string; "" is smallest
SortedByInstant(s) ==
    /\ \A i, j \in 1..Len(s) :
          i < j => LexLeq(s[i].event_date_time_utc, s[j].event_date_time_utc)
    /\ \A i, j \in 1..Len(s) :
          (s[i].event_date_time_utc = <<>> /\ s[j].event_date_time_utc # <<>>) => i < j

\* C12: every step of stage 2 moves to the next stage of the fixed order
\* transform, type filter, same-instant resolver, fiscal-period resolver,
\* generic consolidator, each stage applied to the list the previous one
\* returned; the step that hands the list to the writer leaves it sorted
\* ascending by the UTC instant string, records with an empty instant
\* before all records with a non-empty one, and writes it in that order.
C12_StagesInOrderThenSorted ==
    [][/\ (pc' # pc /\ pc # "done" /\ pc' # "aborted") =>
              \E k \in 1..(Len(StageOrder) - 1) :
                  pc = StageOrder[k] /\ pc' = StageOrder[k + 1]
       /\ (pc = "transform" /\ pc' = "filter") =>
              events' = Map(raw_events,
                            LAMBDA raw : transform_event(raw, institutions, timestamp'))
       /\ (pc = "filter" /\ pc' # pc) => events' = filter_events(events)
       /\ (pc = "same_datetime" /\ pc' # pc) =>
              events' = dedupe_same_datetime(events, DATETIME_DEDUP_PRIORITY)
       /\ (pc = "earnings" /\ pc' # pc) =>
              events' = dedupe_earnings_by_fiscal_period(events)
       /\ (pc = "consolidate" /\ pc' # pc) =>
              events' = consolidate_events(events, DEDUP_RULES, RENAME_RULES)
       /\ (pc = "sort" /\ pc' # pc) =>
              /\ SameRecords(events, events')
              /\ SortedByInstant(events')
              /\ events' # <<>> => output_file' = Map(events', OutputRow)
      ]_vars

\* a finished run whose input listed a dated record before an undated one
\* and whose output lists the undated one first
C12_Witness ==
    /\ pc = "done"
    /\ Len(raw_events) = 2
    /\ raw_events[1].event_date_time # NoTimestamp
    /\ raw_events[1].event_date_time # BadTimestamp
    /\ raw_events[2].event_date_time = NoTimestamp
    /\ Len(events) = 2
    /\ events[1].event_date_time_utc = <<>>
    /\ events[2].event_date_time_utc # <<>>
    /\ output_file = Map(events, OutputRow)

\* C16: when the stage 1 file is absent, stage 2 logs the error and returns
\* before anything else: no record is transformed, filtered or resolved, no
\* run timestamp is taken and the output file is not written.
C16_MissingInputAbortsBeforeCore ==
    ~input_exists =>
        /\ pc \in {"transform", "aborted"}
        /\ events = <<>> /\ timestamp = <<>> /\ first_result = <<>>
        /\ output_file = <<>>
        /\ pc = "aborted" => errors = <<"Input not found">>

C16_Witness ==
    ~input_exists /\ pc = "aborted" /\ errors = <<"Input not found">>

----------------------------------------------------------------------------
(* main.py lines 86-97 and stage 3 (database_upload.py)                    *)

MaxRows == 2    \* rows of the stage 2 file, and rows already in the table

EXPECTED_COLUMNS ==
    <<"event_id", "ticker", "institution_name", "institution_id",
      "institution_type", "event_type", "event_headline", "event_date_time_utc",
      "event_date_time_local", "event_date", "event_time_local", "webcast_link",
      "contact_info", "fiscal_year", "fiscal_period", "data_fetched_timestamp">>

\* a row of a CSV file with the given header: a dict column -> str
CsvRow(header, id) == [c \in header |-> IF c = "event_id" THEN id ELSE "x"]

\* headers of the stage 2 file: OUTPUT_SCHEMA, and a file that lacks one
\* expected column and has one more
CsvHeaders == {Range(EXPECTED_COLUMNS),
               (Range(EXPECTED_COLUMNS) \ {"webcast_link"}) \cup {"notes"}}

\* line 143: row = {col: event.get(col, "") for col in columns}
RowOf(event) ==
    [col \in Range(EXPECTED_COLUMNS) |->
        IF col \in DOMAIN event THEN event[col] ELSE ""]

\* a table row; `old` tells the rows that were there before the run
OldRow(id) == [old |-> TRUE, data |-> CsvRow(Range(EXPECTED_COLUMNS), id)]
NewRow(event) == [old |-> FALSE, data |-> RowOf(event)]

\* column sets of the destination table: as expected, one missing, one
\* extra, both
ColumnChoices ==
    {(Range(EXPECTED_COLUMNS) \ m) \cup x :
        m \in {{}, {"fiscal_period"}}, x \in {{}, {"created_at"}}}

\* validate_table_schema, lines 97-100
MissingColumns(cols) == Range(EXPECTED_COLUMNS) \ cols
ExtraColumns(cols) == cols \ Range(EXPECTED_COLUMNS)

Issued(kind) == \E i \in 1..Len(statements) : statements[i] = kind

NotStage3 == UNCHANGED <<stage2_vars, DATETIME_DEDUP_PRIORITY, rs_vars, ex_vars,
                         mg_vars, tz_vars, fl_vars, ft_vars, more_vars>>

InitStage3 ==
    /\ s3_pc = "pipeline"
    /\ args \in [dry_run : BOOLEAN, skip_upload : BOOLEAN]
    /\ sys_argv = <<>>
    /\ dry_run = FALSE
    /\ csv_exists \in BOOLEAN
    /\ \E h \in CsvHeaders : \E ids \in SeqsUpTo({"e1", "e2"}, MaxRows) :
          csv_rows = IF csv_exists THEN Map(ids, LAMBDA id : CsvRow(h, id)) ELSE <<>>
    /\ s3_events = <<>>
    /\ conn_ok \in BOOLEAN
    /\ table_exists \in BOOLEAN
    /\ db_columns \in (IF table_exists THEN ColumnChoices ELSE {{}})
    /\ \E ids \in SeqsUpTo({"e0", "e1"}, MaxRows) :
          table = IF table_exists THEN Map(ids, OldRow) ELSE <<>>
    /\ current_count = 0
    /\ pending = <<>>
    /\ ins_i = 0
    /\ statements = <<>>
    /\ s3_log = <<>>
    /\ DATETIME_DEDUP_PRIORITY = ShippedPriority
    /\ Stage2Off /\ ResolversOff /\ ExpandOff /\ MergeOff /\ TzOff /\ FilterOff
    /\ FetchOff /\ MoreOff

\* variant: main.py starts stage 3 without handing it the flag
RunStage3WithoutFlag ==
    /\ s3_pc = "pipeline"
    /\ IF args.skip_upload
       THEN s3_pc' = "skipped" /\ UNCHANGED sys_argv
       ELSE s3_pc' = "parse" /\ sys_argv' = <<>>
    /\ UNCHANGED <<args, dry_run, csv_exists, csv_rows, s3_events, conn_ok,
                   table_exists, db_columns, table, pending, ins_i, statements, s3_log,
                   current_count>>
    /\ NotStage3

\* main.py lines 86-97
RunStage3 ==
    /\ s3_pc = "pipeline"
    /\ IF args.skip_upload
       THEN s3_pc' = "skipped" /\ UNCHANGED sys_argv
       ELSE /\ s3_pc' = "parse"
            /\ sys_argv' = IF args.dry_run THEN <<"--dry-run">> ELSE <<>>
    /\ UNCHANGED <<args, dry_run, csv_exists, csv_rows, s3_events, conn_ok,
                   table_exists, db_columns, table, pending, ins_i, statements, s3_log,
                   current_count>>
    /\ NotStage3

\* lines 168-174
ParseArgs ==
    /\ s3_pc = "parse"
    /\ dry_run' = InList("--dry-run", sys_argv)
    /\ s3_pc' = "load"
    /\ UNCHANGED <<args, sys_argv, csv_exists, csv_rows, s3_events, conn_ok,
                   table_exists, db_columns, table, pending, ins_i, statements, s3_log,
                   current_count>>
    /\ NotStage3

\* lines 183-187
LoadEvents ==
    /\ s3_pc = "load"
    /\ IF csv_exists
       THEN s3_events' = csv_rows /\ s3_pc' = "connect" /\ UNCHANGED s3_log
       ELSE /\ s3_log' = Append(s3_log, "ERROR Input not found")
            /\ s3_pc' = "aborted" /\ UNCHANGED s3_events
    /\ UNCHANGED <<args, sys_argv, dry_run, csv_exists, csv_rows, conn_ok,
                   table_exists, db_columns, table, pending, ins_i, statements,
                   current_count>>
    /\ NotStage3

\* lines 199-204 with connect_db, lines 81-86
Connect ==
    /\ s3_pc = "connect"
    /\ IF conn_ok
       THEN /\ statements' = Append(statements, "SELECT 1")
            /\ s3_pc' = "validate" /\ UNCHANGED s3_log
       ELSE /\ s3_log' = Append(s3_log, "ERROR Database connection failed")
            /\ s3_pc' = "aborted" /\ UNCHANGED statements
    /\ UNCHANGED <<args, sys_argv, dry_run, csv_exists, csv_rows, s3_events, conn_ok,
                   table_exists, db_columns, table, pending, ins_i,
                   current_count>>
    /\ NotStage3

\* variant: missing columns are only logged
ValidateSchemaLenient ==
    /\ s3_pc = "validate"
    /\ IF ~table_exists
       THEN /\ s3_log' = Append(s3_log, "ERROR Schema validation failed")
            /\ s3_pc' = "aborted"
       ELSE /\ s3_log' = s3_log
                  \o (IF MissingColumns(db_columns) # {}
                      THEN <<"ERROR Missing columns in database">> ELSE <<>>)
                  \o (IF ExtraColumns(db_columns) # {}
                      THEN <<"WARNING Extra columns in database (ignored)">> ELSE <<>>)
            /\ s3_pc' = "count"
    /\ UNCHANGED <<args, sys_argv, dry_run, csv_exists, csv_rows, s3_events, conn_ok,
                   table_exists, db_columns, table, pending, ins_i, statements,
                   current_count>>
    /\ NotStage3

\* lines 206-217 with validate_table_schema, lines 89-100
ValidateSchema ==
    /\ s3_pc = "validate"
    /\ IF ~table_exists
       THEN /\ s3_log' = Append(s3_log, "ERROR Schema validation failed")
            /\ s3_pc' = "aborted"
       ELSE IF MissingColumns(db_columns) # {}
       THEN /\ s3_log' = Append(s3_log, "ERROR Missing columns in database")
            /\ s3_pc' = "aborted"
       ELSE /\ s3_log' = IF ExtraColumns(db_columns) # {}
                         THEN Append(s3_log, "WARNING Extra columns in database (ignored)")
                         ELSE s3_log
            /\ s3_pc' = "count"
    /\ UNCHANGED <<args, sys_argv, dry_run, csv_exists, csv_rows, s3_events, conn_ok,
                   table_exists, db_columns, table, pending, ins_i, statements,
                   current_count>>
    /\ NotStage3

\* line 219 with get_row_count, lines 103-108
GetRowCount ==
    /\ s3_pc = "count"
    /\ statements' = Append(statements, "SELECT COUNT")
    /\ current_count' = Len(table)
    /\ s3_pc' = "delete"
    /\ UNCHANGED <<args, sys_argv, dry_run, csv_exists, csv_rows, s3_events, conn_ok,
                   table_exists, db_columns, table, pending, ins_i, s3_log>>
    /\ NotStage3

\* variant: the rows are counted but never deleted
DeleteNothing ==
    /\ s3_pc = "delete"
    /\ statements' = Append(statements, "SELECT COUNT")
    /\ table' = table
    /\ s3_pc' = "insert"
    /\ ins_i' = 1
    /\ UNCHANGED <<args, sys_argv, dry_run, csv_exists, csv_rows, s3_events, conn_ok,
                   table_exists, db_columns, pending, s3_log,
                   current_count>>
    /\ NotStage3

\* line 222 with delete_all_rows, lines 111-123: a dry run counts the rows,
\* a real run executes the DELETE and commits it
DeleteAllRows ==
    /\ s3_pc = "delete"
    /\ IF dry_run
       THEN /\ statements' = Append(statements, "SELECT COUNT")
            /\ table' = table
       ELSE /\ statements' = statements \o <<"DELETE", "COMMIT">>
            /\ table' = <<>>
    /\ s3_pc' = "insert"
    /\ ins_i' = 1
    /\ UNCHANGED <<args, sys_argv, dry_run, csv_exists, csv_rows, s3_events, conn_ok,
                   table_exists, db_columns, pending, s3_log,
                   current_count>>
    /\ NotStage3

\* the DELETE raises: nothing is committed and main() ends with the exception
DeleteFails ==
    /\ s3_pc = "delete"
    /\ ~dry_run
    /\ statements' = Append(statements, "DELETE")
    /\ s3_pc' = "crashed"
    /\ UNCHANGED <<args, sys_argv, dry_run, csv_exists, csv_rows, s3_events, conn_ok,
                   table_exists, db_columns, table, pending, ins_i, s3_log,
                   current_count>>
    /\ NotStage3

\* lines 130-135: insert_events in a dry run, or with no events
InsertNothing ==
    /\ s3_pc = "insert"
    /\ dry_run \/ s3_events = <<>>
    /\ statements' = IF dry_run THEN statements ELSE Append(statements, "SELECT COUNT")
    /\ s3_pc' = "done"
    /\ UNCHANGED <<args, sys_argv, dry_run, csv_exists, csv_rows, s3_events, conn_ok,
                   table_exists, db_columns, table, pending, ins_i, s3_log,
                   current_count>>
    /\ NotStage3

\* lines 142-147: one turn of the insert loop
InsertRow ==
    /\ s3_pc = "insert"
    /\ ~dry_run
    /\ ins_i <= Len(s3_events)
    /\ statements' = Append(statements, "INSERT")
    /\ pending' = Append(pending, NewRow(s3_events[ins_i]))
    /\ ins_i' = ins_i + 1
    /\ UNCHANGED <<s3_pc, args, sys_argv, dry_run, csv_exists, csv_rows, s3_events,
                   conn_ok, table_exists, db_columns, table, s3_log,
                   current_count>>
    /\ NotStage3

\* an INSERT raises: the connection closes without commit, main() ends
InsertFails ==
    /\ s3_pc = "insert"
    /\ ~dry_run
    /\ ins_i <= Len(s3_events)
    /\ statements' = Append(statements, "INSERT")
    /\ pending' = <<>>
    /\ s3_pc' = "crashed"
    /\ UNCHANGED <<args, sys_argv, dry_run, csv_exists, csv_rows, s3_events, conn_ok,
                   table_exists, db_columns, table, ins_i, s3_log,
                   current_count>>
    /\ NotStage3

\* line 148, then lines 234-235
CommitInserts ==
    /\ s3_pc = "insert"
    /\ ~dry_run
    /\ s3_events # <<>>
    /\ ins_i > Len(s3_events)
    /\ statements' = statements \o <<"COMMIT", "SELECT COUNT">>
    /\ table' = table \o pending
    /\ pending' = <<>>
    /\ s3_pc' = "done"
    /\ UNCHANGED <<args, sys_argv, dry_run, csv_exists, csv_rows, s3_events, conn_ok,
                   table_exists, db_columns, ins_i, s3_log,
                   current_count>>
    /\ NotStage3

NextStage3 ==
    \/ RunStage3 \/ ParseArgs \/ LoadEvents \/ Connect \/ ValidateSchema
    \/ GetRowCount \/ DeleteAllRows \/ DeleteFails \/ InsertNothing
    \/ InsertRow \/ InsertFails \/ CommitInserts

SpecStage3 == InitStage3 /\ [][NextStage3]_vars

----------------------------------------------------------------------------
(* Claims about stage 3                                                    *)

\* position of the first statement of the given kind (0 if none)
FirstIssued(kind) ==
    IF Issued(kind)
    THEN CHOOSE i \in 1..Len(statements) :
            /\ statements[i] = kind
            /\ \A j \in 1..(i - 1) : statements[j] # kind
    ELSE 0

\* row r holds event e restricted to the expected columns
HoldsEvent(r, e) ==
    /\ DOMAIN r.data = Range(EXPECTED_COLUMNS)
    /\ \A col \in Range(EXPECTED_COLUMNS) :
          r.data[col] = IF col \in DOMAIN e THEN e[col] ELSE ""

\* C13: in a run that is not a dry run, the committed DELETE precedes the
\* first INSERT, so no row from before the run is in the table once an
\* INSERT was sent; when the run completes the table holds exactly one row
\* per processed event, in order, each restricted to the expected columns,
\* and no row from before the run.
C13_DeleteAllThenInsertEach ==
    /\ Issued("INSERT") =>
          /\ FirstIssued("DELETE") # 0
          /\ FirstIssued("DELETE") < FirstIssued("INSERT")
          /\ statements[FirstIssued("DELETE") + 1] = "COMMIT"
          /\ \A i \in 1..Len(table) : ~table[i].old
    /\ (s3_pc = "done" /\ ~dry_run) =>
          /\ Len(table) = Len(s3_events)
          /\ \A i \in 1..Len(table) :
                ~table[i].old /\ HoldsEvent(table[i], s3_events[i])

\* a completed upload of two events into a table that had two rows, from a
\* file that lacks an expected column and has an unexpected one
C13_Witness ==
    /\ s3_pc = "done" /\ ~dry_run
    /\ current_count = 2
    /\ Len(s3_events) = 2
    /\ "notes" \in DOMAIN s3_events[1]
    /\ Len(table) = 2
    /\ table[1].data["webcast_link"] = ""
    /\ Issued("DELETE") /\ Issued("INSERT")

\* C14: when main.py is started with --dry-run, stage 3 sends no DELETE and
\* no INSERT and no step changes the destination table, while the
\* connection test and the schema validation are still performed: a dry run
\* that completes has sent SELECT 1 and has passed validate_table_schema.
C14_DryRunLeavesTableAlone ==
    [][args.dry_run =>
          /\ table' = table
          /\ pending' = <<>>
          /\ \A i \in 1..Len(statements') : statements'[i] \notin {"DELETE", "INSERT"}
          /\ s3_pc' = "done" =>
                /\ Issued("SELECT 1")
                /\ table_exists /\ MissingColumns(db_columns) = {}
      ]_vars

\* a completed dry run that had rows to delete and events to insert
C14_Witness ==
    /\ args.dry_run /\ dry_run /\ s3_pc = "done"
    /\ current_count = 2 /\ Len(table) = 2 /\ table[1].old
    /\ Len(s3_events) = 2
    /\ Issued("SELECT 1")

\* the run stopped at the connection or at the schema validation
SchemaOrConnectionFatal ==
    csv_exists /\ ~args.skip_upload
        /\ (~conn_ok \/ ~table_exists \/ MissingColumns(db_columns) # {})

\* C15: when the connection fails, the table does not exist or an expected
\* column is missing, stage 3 returns before the row count: it sends no
\* DELETE and no INSERT and the table keeps its rows.  Columns of the table
\* that are not expected only add a warning: with nothing else wrong the run
\* is not aborted, and a completed upload has replaced the rows.
C15_MissingColumnFatalExtraTolerated ==
    /\ SchemaOrConnectionFatal =>
          /\ s3_pc \in {"pipeline", "parse", "load", "connect", "validate", "aborted"}
          /\ ~Issued("DELETE") /\ ~Issued("INSERT") /\ ~Issued("SELECT COUNT")
          /\ \A i \in 1..Len(table) : table[i].old
    /\ (s3_pc = "aborted" /\ csv_exists) =>
          /\ SchemaOrConnectionFatal
          /\ s3_log # <<>>
    /\ (ExtraColumns(db_columns) # {} /\ s3_pc \in {"count", "delete", "insert", "done"}) =>
          s3_log = <<"WARNING Extra columns in database (ignored)">>
    /\ (ExtraColumns(db_columns) # {} /\ s3_pc = "done" /\ ~dry_run) =>
          /\ Len(table) = Len(s3_events)
          /\ \A i \in 1..Len(table) : ~table[i].old

\* a run aborted for a missing column, with rows in the table and in the file
C15_Witness ==
    /\ s3_pc = "aborted" /\ conn_ok /\ table_exists
    /\ MissingColumns(db_columns) = {"fiscal_period"}
    /\ ~dry_run /\ Len(table) = 2 /\ Len(s3_events) = 2
    /\ s3_log = <<"ERROR Missing columns in database">>

\* the other case: a completed upload into a table with an unexpected column
C15_WitnessExtra ==
    /\ s3_pc = "done" /\ ~dry_run
    /\ ExtraColumns(db_columns) = {"created_at"}
    /\ MissingColumns(db_columns) = {}
    /\ current_count = 2 /\ Len(s3_events) = 2 /\ Len(table) = 2
    /\ ~table[1].old

----------------------------------------------------------------------------
(* Claims about records without a usable timestamp                         *)

\* row i of the input has a null timestamp or one that does not parse
Undated(i) == raw_events[i].event_date_time \in {NoTimestamp, BadTimestamp}

AllowedCategory(i) == raw_events[i].event_type \in get_allowed_types

\* row i is in the written file: transformed, its category renamed by the
\* consolidator if a rename rule names it, restricted to the output columns
AppearsInOutput(i) ==
    \E k \in 1..Len(output_file) :
        output_file[k] =
            OutputRow(consolidate_events(<<Transformed[i]>>, DEDUP_RULES, RENAME_RULES)[1])

\* another row of the input is an Earnings record of the same fiscal key
HasEarningsRival(i) ==
    /\ Transformed[i].event_type = "Earnings"
    /\ HasFiscal(Transformed[i])
    /\ \E j \in 1..Len(raw_events) :
          /\ j # i
          /\ Transformed[j].event_type = "Earnings"
          /\ EarningsKey(Transformed[j]) = EarningsKey(Transformed[i])

\* every record made from an undated row has the four temporal fields empty
UndatedFieldsEmpty ==
    pc = "filter" =>
        /\ Len(events) = Len(raw_events)
        /\ \A i \in 1..Len(raw_events) :
              Undated(i) =>
                  /\ events[i].event_date_time_utc = <<>>
                  /\ events[i].event_date_time_local = <<>>
                  /\ events[i].event_date = <<>>
                  /\ events[i].event_time_local = <<>>

----------------------------------------------------------------------------
(* fetch_events: the chunk loop (lines 339-348) around query_chunk         *)

MaxChunks == 3    \* len(split_date_range(start_date, end_date))

max_retries == 5

\* what the provider may send for chunk c: nothing, one event of a
\* monitored ticker, or an event of the alternate ticker together with one
\* of a ticker that was not asked for
ResponseChoices(c) ==
    LET ts == Timestamp(2024, c, 15, 12, <<0>>) IN
    {<<>>,
     <<ApiEv(BMO_CA, "", "", "", "none", ts)>>,
     <<ApiEv(BMO_US, "", "", "", "none", ts), ApiEv(TD_CA, "", "", "", "none", ts)>>}

\* line 295: [e.to_dict() for e in response.data if e.ticker in tickers]
KeepQueried(data, query_tickers) ==
    SelectSeq(data, LAMBDA e : InList(e.ticker, query_tickers))

\* the words that make an error retryable (lines 302-304)
ApiErrors == {"connection reset", "invalid api key"}
is_retryable(error_msg) == error_msg = "connection reset"

NotFetch == UNCHANGED <<stage2_vars, DATETIME_DEDUP_PRIORITY, rs_vars, tz_vars,
                        fl_vars, s3_vars, more_vars>>

\* fetch_events at line 342: the tickers are expanded, the range is split
InitFetch ==
    /\ tickers \in MonitoredLists
    /\ ex_i = Len(tickers) + 1
    /\ expanded = expand_canadian_tickers(tickers).expanded
    /\ variant_map = expand_canadian_tickers(tickers).variant_map
    /\ n_chunks \in 1..MaxChunks
    /\ chunk_i = 1
    /\ attempt = 0
    /\ ft_chunks = <<>>
    /\ ft_calls = 0 /\ ft_sleeps = <<>> /\ ft_caught = <<>>
    /\ mg_pc = "querying"
    /\ mg_events = <<>>
    /\ mg_result = <<>>
    /\ mg_kept = <<>>
    /\ DATETIME_DEDUP_PRIORITY = ShippedPriority
    /\ Stage2Off /\ ResolversOff /\ TzOff /\ FilterOff /\ Stage3Off /\ MoreOff

\* query_chunk returns `got` for the current chunk; line 345 extends
\* `events` and the loop goes on, or ends after the last chunk
ChunkReturns(ended, data, got) ==
    /\ ft_chunks' = Append(ft_chunks, [chunk |-> chunk_i, ended |-> ended, data |-> data])
    /\ mg_events' = mg_events \o got
    /\ chunk_i' = chunk_i + 1
    /\ attempt' = 0
    /\ mg_pc' = IF chunk_i = n_chunks THEN "fetched" ELSE "querying"

\* line 293: one more api.get_company_event call; attempt = 0 is the first
\* call of a query_chunk call, whose counts start afresh
Called == (IF attempt = 0 THEN 0 ELSE ft_calls) + 1
Slept  == IF attempt = 0 THEN <<>> ELSE ft_sleeps
Caught == IF attempt = 0 THEN <<>> ELSE ft_caught

\* lines 293-296: the call returns a response
ApiResponds ==
    /\ mg_pc = "querying"
    /\ \E data \in ResponseChoices(chunk_i) :
          ChunkReturns("ok", data, KeepQueried(data, expanded))
    /\ ft_calls' = Called /\ ft_sleeps' = Slept /\ ft_caught' = Caught
    /\ UNCHANGED <<ex_vars, n_chunks, mg_result, mg_kept>>
    /\ NotFetch

\* variant: an error that is not retried leaves query_chunk as an exception
ApiRaisesUncaught ==
    /\ mg_pc = "querying"
    /\ \E error_msg \in ApiErrors :
          /\ ft_calls' = Called /\ ft_caught' = Append(Caught, error_msg)
          /\ IF is_retryable(error_msg) /\ attempt # max_retries - 1
             THEN /\ attempt' = attempt + 1
                  /\ ft_sleeps' = Append(Slept, 2 ^ attempt)
                  /\ UNCHANGED <<chunk_i, ft_chunks, mg_events, mg_pc>>
             ELSE /\ ft_chunks' = Append(ft_chunks,
                          [chunk |-> chunk_i, ended |-> "raised", data |-> <<>>])
                  /\ mg_pc' = "crashed"
                  /\ ft_sleeps' = Slept
                  /\ UNCHANGED <<chunk_i, attempt, mg_events>>
    /\ UNCHANGED <<ex_vars, n_chunks, mg_result, mg_kept>>
    /\ NotFetch

\* variant: every error is retried, whatever its message
ApiRaisesRetriesAnyError ==
    /\ mg_pc = "querying"
    /\ \E error_msg \in ApiErrors :
          /\ ft_calls' = Called /\ ft_caught' = Append(Caught, error_msg)
          /\ IF attempt # max_retries - 1
             THEN /\ attempt' = attempt + 1
                  /\ ft_sleeps' = Append(Slept, 2 ^ attempt)
                  /\ UNCHANGED <<chunk_i, ft_chunks, mg_events, mg_pc>>
             ELSE /\ ChunkReturns("error", <<>>, <<>>)
                  /\ ft_sleeps' = Slept
    /\ UNCHANGED <<ex_vars, n_chunks, mg_result, mg_kept>>
    /\ NotFetch

\* lines 297-315: the call (or the handling of its response) raises; a
\* retryable error before the last attempt sleeps 2 ** attempt seconds and
\* the loop tries again, any other is logged and [] is returned
ApiRaises ==
    /\ mg_pc = "querying"
    /\ \E error_msg \in ApiErrors :
          /\ ft_calls' = Called /\ ft_caught' = Append(Caught, error_msg)
          /\ IF is_retryable(error_msg) /\ attempt # max_retries - 1
             THEN /\ attempt' = attempt + 1
                  /\ ft_sleeps' = Append(Slept, 2 ^ attempt)
                  /\ UNCHANGED <<chunk_i, ft_chunks, mg_events, mg_pc>>
             ELSE /\ ChunkReturns("error", <<>>, <<>>)
                  /\ ft_sleeps' = Slept
    /\ UNCHANGED <<ex_vars, n_chunks, mg_result, mg_kept>>
    /\ NotFetch

NextFetch == ApiResponds \/ ApiRaises \/ Merge

SpecFetch == InitFetch /\ [][NextFetch]_vars

\* fetch_events is one sequential loop: as long as a step is possible the
\* program takes one
SpecFetchFair == SpecFetch /\ WF_vars(NextFetch)

\* the events of the chunks of list cs that ended with a response, in order
RECURSIVE EventsOfOk(_, _)
EventsOfOk(cs, query_tickers) ==
    IF cs = <<>> THEN <<>>
    ELSE (IF Head(cs).ended = "ok"
          THEN KeepQueried(Head(cs).data, query_tickers) ELSE <<>>)
         \o EventsOfOk(Tail(cs), query_tickers)

\* C18: an API error that ends the query of one chunk (not retryable, or
\* still failing on the last attempt) leaves query_chunk as an empty list,
\* never as an exception; the loop goes on, so the chunks are queried one
\* after the other in chunk order, all of them by the end of the loop; and
\* the list handed to merge_variant_events holds the events of every chunk
\* that was answered, in chunk order.
C18_FailedChunkSkippedOthersFetched ==
    /\ mg_pc \in {"querying", "fetched", "merged"}
    /\ \A k \in 1..Len(ft_chunks) : ft_chunks[k].chunk = k
    /\ Len(ft_chunks) = chunk_i - 1
    /\ mg_pc \in {"fetched", "merged"} => Len(ft_chunks) = n_chunks
    /\ mg_events = EventsOfOk(ft_chunks, expanded)
    /\ mg_pc = "merged" => mg_result = merge_variant_events(mg_events, variant_map)

\* three chunks: the first answered, the second failed, the third answered,
\* and the events of the first and third were merged
C18_Witness ==
    /\ mg_pc = "merged"
    /\ n_chunks = 3
    /\ ft_chunks[1].ended = "ok" /\ ft_chunks[1].data # <<>>
    /\ ft_chunks[2].ended = "error"
    /\ ft_chunks[3].ended = "ok" /\ ft_chunks[3].data # <<>>
    /\ Len(mg_events) = 2
    /\ Len(mg_result) = 2

----------------------------------------------------------------------------
(* Claim about LB-US, which is not Laurentian Bank (LB-CA)                 *)

\* C19: an event the provider returned under LB-US keeps that ticker: the
\* merge of stage 1 returns it as LB-US also when LB-CA is monitored, and
\* normalize_canadian_ticker of stage 2 leaves LB-US as it is.
C19_LbUsNeverRelabelled ==
    /\ normalize_canadian_ticker(LB_US) = LB_US
    /\ mg_pc = "merged" =>
          \A k \in 1..Len(mg_result) :
              mg_kept[k] = LB_US => mg_result[k].ticker = LB_US

----------------------------------------------------------------------------
(* Claim about the peer comparison of the fiscal-period resolver           *)

MonthOf(e) == IF e.event_date = <<>> THEN <<>> ELSE SubSeq(e.event_date, 1, 2)

\* positions of the dated Earnings records of the other tickers for the
\* fiscal period of the record at position i
PeersAt(i) ==
    {j \in 1..Len(rs_events) :
        /\ rs_events[j].event_type = "Earnings"
        /\ rs_events[j].ticker # rs_events[i].ticker
        /\ rs_events[j].fiscal_year = rs_events[i].fiscal_year
        /\ rs_events[j].fiscal_period = rs_events[i].fiscal_period
        /\ rs_events[j].event_date # <<>>}

PeersIn(i, month) == Cardinality({j \in PeersAt(i) : MonthOf(rs_events[j]) = month})

\* the months no other month beats in peer count
TopMonths(i) ==
    {m \in {MonthOf(rs_events[j]) : j \in PeersAt(i)} :
        \A j \in PeersAt(i) : PeersIn(i, MonthOf(rs_events[j])) <= PeersIn(i, m)}

\* rule (b) on the group at positions grp: the most recent last-modified
\* date, the earliest such record of the input on a tie
LastModifiedOf(grp) ==
    rs_events[CHOOSE i \in grp :
        /\ \A j \in grp : LexLeq(rs_events[j].last_modified_date,
                                 rs_events[i].last_modified_date)
        /\ \A j \in grp : (j < i) => rs_events[j].last_modified_date
                                        # rs_events[i].last_modified_date]

----------------------------------------------------------------------------
(* Claim about the last-modified pick of the fiscal-period resolver        *)

\* C21: for an Earnings group of more than one record whose records fall in
\* at most one distinct non-empty month, the survivor is a record of the
\* group whose last-modified string is maximal under lexical comparison (an
\* empty value compares lowest), and among the records of that value it is
\* the one earliest in the input.
C21_SingleMonthKeepsLatestModified ==
    rs_op = "earnings" =>
        \A i \in 1..Len(rs_events) :
            LET e   == rs_events[i]
                grp == EarningsAt(rs_events, e.ticker, e.fiscal_year, e.fiscal_period)
                mon == {MonthOf(rs_events[j]) : j \in grp} \ {<<>>}
                out == EarningsAt(rs_result, e.ticker, e.fiscal_year, e.fiscal_period)
            IN  (/\ e.event_type = "Earnings"
                 /\ e.fiscal_year # "" /\ e.fiscal_period # ""
                 /\ Cardinality(grp) > 1
                 /\ Cardinality(mon) <= 1) =>
                    /\ Cardinality(out) = 1
                    /\ \A o \in out :
                          \E k \in grp :
                              /\ rs_result[o] = rs_events[k]
                              /\ \A j \in grp :
                                    LexLeq(rs_events[j].last_modified_date,
                                           rs_events[k].last_modified_date)
                              /\ \A j \in grp :
                                    (j < k) => rs_events[j].last_modified_date
                                                  # rs_events[k].last_modified_date

\* three April records of RY's 2024 Q2, modified never, at 2 and at 2 again
\* (the last one undated): the second is kept
C21_Witness ==
    /\ rs_op = "earnings"
    /\ Len(rs_events) = 3
    /\ rs_events[1] = Ev(RY_CA, "Earnings", NoonUtc(T_APR), T_APR, "2024", "Q2", <<>>)
    /\ rs_events[2] = Ev(RY_CA, "Earnings", NoonUtc(T_APR), T_APR, "2024", "Q2", <<2>>)
    /\ rs_events[3] = Ev(RY_CA, "Earnings", <<>>, <<>>, "2024", "Q2", <<2>>)
    /\ rs_result = <<rs_events[2]>>
    /\ rs_methods[1].method = "last_modified"

----------------------------------------------------------------------------
(* Claim about the records the fiscal-period resolver does not group       *)

\* how many positions of list s hold the record e
Copies(s, e) == Cardinality({j \in 1..Len(s) : s[j] = e})

\* C22: every record whose category is not Earnings, and every Earnings
\* record with an empty fiscal year or fiscal period, is in the output of
\* dedupe_earnings_by_fiscal_period as often as it is in the input, with
\* every field unchanged, whatever else the input holds.
C22_UngroupedRecordsPassThrough ==
    rs_op = "earnings" =>
        \A i \in 1..Len(rs_events) :
            LET e == rs_events[i] IN
            (e.event_type # "Earnings" \/ e.fiscal_year = "" \/ e.fiscal_period = "") =>
                Copies(rs_result, e) = Copies(rs_events, e)

\* TD's Earnings record without a fiscal year stays while RY's two April
\* records of 2024 Q2 are resolved to one
C22_Witness ==
    /\ rs_op = "earnings"
    /\ Len(rs_events) = 3
    /\ rs_events[1] = Ev(TD_CA, "Earnings", NoonUtc(T_MAY), T_MAY, "", "Q2", <<1>>)
    /\ rs_events[2] = Ev(RY_CA, "Earnings", NoonUtc(T_APR), T_APR, "2024", "Q2", <<1>>)
    /\ rs_events[3] = Ev(RY_CA, "Earnings", NoonUtc(T_APR), T_APR, "2024", "Q2", <<2>>)
    /\ rs_result = <<rs_events[3], rs_events[1]>>

\* a Dividend record beside an Earnings record is carried over as it is
C22_WitnessOtherCategory ==
    /\ rs_op = "earnings"
    /\ Len(rs_events) = 2
    /\ rs_events[1].event_type = "Dividend"
    /\ rs_events[2].event_type = "Earnings" /\ HasFiscal(rs_events[2])
    /\ rs_result = <<rs_events[2], rs_events[1]>>

----------------------------------------------------------------------------
(* Claim about the order that picks the survivor of a merge group          *)

\* positions of the fetched events in the duplicate-key group of event i
GroupOf(i) ==
    {k \in 1..Len(mg_events) :
        SameGroup(CanonicalOf(mg_events[k]), mg_events[k],
                  CanonicalOf(mg_events[i]), mg_events[i])}

\* the tuple (is-canonical-source, completeness, instant string) of the
\* fetched event at position k, for a given completeness count
RankAt(k, completeness(_)) ==
    LET e == mg_events[k] IN
    <<IF CanonicalOf(e) = e.ticker THEN 1 ELSE 0, completeness(e)>>
        \o StrOf(e.event_date_time)

\* is position k the survivor at position j of the result
SurvivesAs(k, j) ==
    /\ mg_result[j] = Remap(mg_events[k], variant_map).event
    /\ mg_kept[j] = mg_events[k].ticker

\* every group of more than one member leaves the member that is maximal
\* under the tuple order, the earliest of the input among equal tuples
SurvivorIsFirstMaximum(completeness(_)) ==
    mg_pc = "merged" =>
        \A i \in 1..Len(mg_events) :
            Cardinality(GroupOf(i)) > 1 =>
                \E j \in 1..Len(mg_result) : \E k \in GroupOf(i) :
                    /\ SurvivesAs(k, j)
                    /\ \A m \in GroupOf(i) :
                          LexLeq(RankAt(m, completeness), RankAt(k, completeness))
                    /\ \A m \in GroupOf(i) :
                          (m < k) => RankAt(m, completeness) # RankAt(k, completeness)

\* C23 as stated: in every merge_variant_events group with more than one
\* member the survivor is a maximum under the lexicographic order on
\* (is-canonical-source, completeness score, instant string), the score
\* being 1 for a webcast URL plus 1 for any contact field (name, phone or
\* e-mail), and the earliest of the input among equal tuples.
C23_SurvivorMaximalCountingAnyContact == SurvivorIsFirstMaximum(Completeness)

\* C23 as amended: the same, the score being 1 for a webcast URL plus 1 for
\* a contact phone or e-mail; a contact name does not count.
C23_SurvivorMaximalCountingPhoneOrEmail == SurvivorIsFirstMaximum(CompletenessScored)

\* two BMO-CA records of 2024 Q1 alike but for the contact name of the
\* second: they tie and the first is kept
C23_Witness ==
    /\ mg_pc = "merged"
    /\ Len(mg_events) = 2
    /\ mg_events[1] = ApiEv(BMO_CA, "2024", "Q1", "", "none", TS_EARLY)
    /\ mg_events[2] = ApiEv(BMO_CA, "2024", "Q1", "", "name", TS_EARLY)
    /\ mg_result = <<mg_events[1]>>

----------------------------------------------------------------------------
(* consolidate_events called on its own, under the shipped tables and      *)
(* under edited DEDUP_RULES                                                *)

ConsolidatePool ==
    {Ev(RY_CA, t, NoonUtc(d), d, f[1], f[2], <<>>) :
        t \in {"Earnings", "ConfirmedEarningsRelease", "SalesRevenueRelease"},
        d \in {T_APR, T_MAY},
        f \in {<<"2024", "Q2">>, <<"", "">>}}
    \cup {Ev(TD_CA, t, NoonUtc(T_APR), T_APR, "2024", "Q2", <<>>) :
             t \in {"Earnings", "Dividend"}}

\* the shipped (empty) table, a table that folds the confirmed release and
\* the call into Earnings, and one that also makes a rename source a
\* dedup source
DedupChoices ==
    {DEDUP_RULES,
     <<[target |-> "Earnings",
        sources |-> <<"ConfirmedEarningsRelease", "Earnings">>]>>,
     <<[target |-> "Earnings",
        sources |-> <<"ConfirmedEarningsRelease", "Earnings">>],
       [target |-> "Revenue",
        sources |-> <<"SalesRevenueRelease">>]>>}

NotConsolidate == UNCHANGED <<stage2_vars, DATETIME_DEDUP_PRIORITY, rs_vars, ex_vars,
                              mg_vars, tz_vars, fl_vars, s3_vars, ft_vars, tr_vars,
                              sp_vars, pl_vars>>

InitConsolidate ==
    /\ cs_pc = "idle"
    /\ cs_arg \in SeqsUpTo(ConsolidatePool, MaxEvents)
    /\ cs_events = cs_arg
    /\ cs_rules \in DedupChoices
    /\ cs_result = <<>>
    /\ DATETIME_DEDUP_PRIORITY = ShippedPriority
    /\ Stage2Off /\ ResolversOff /\ ExpandOff /\ MergeOff /\ TzOff
    /\ FilterOff /\ Stage3Off /\ FetchOff /\ TransformOff /\ SplitOff
    /\ PipelineOff

\* line 613: events = consolidate_events(events); winners and renamed
\* records are copies (lines 540, 548), so the list passed in is as before
CallConsolidateEvents ==
    /\ cs_pc = "idle"
    /\ cs_result' = consolidate_events(cs_arg, cs_rules, RENAME_RULES)
    /\ cs_events' = cs_events
    /\ cs_pc' = "done"
    /\ UNCHANGED <<cs_arg, cs_rules>>
    /\ NotConsolidate

NextConsolidate == CallConsolidateEvents

SpecConsolidate == InitConsolidate /\ [][NextConsolidate]_vars

----------------------------------------------------------------------------
(* Claims about consolidate_events                                         *)

\* is the category of the record passed at position i a dedup source
IsSource(i) == \E r \in 1..Len(cs_rules) : InList(cs_arg[i].event_type, cs_rules[r].sources)

\* the target category and the priority index of a dedup source
TargetAt(i) == DedupTarget(cs_arg[i].event_type, cs_rules)
IndexAt(i)  == DedupPriority(cs_arg[i].event_type, cs_rules)

\* do records e and f agree on ticker and on fiscal year and period when
\* both are present, else on the event date
SameOccasion(e, f) ==
    /\ e.ticker = f.ticker
    /\ IF HasFiscal(e) /\ HasFiscal(f)
       THEN e.fiscal_year = f.fiscal_year /\ e.fiscal_period = f.fiscal_period
       ELSE ~HasFiscal(e) /\ ~HasFiscal(f) /\ e.event_date = f.event_date

\* positions of the dedup group of the source record at position i
DedupGroupOf(i) ==
    {k \in 1..Len(cs_arg) :
        IsSource(k) /\ TargetAt(k) = TargetAt(i) /\ SameOccasion(cs_arg[k], cs_arg[i])}

\* the number of dedup groups of the list passed; the result lists their
\* winners first
WinnerCount == Cardinality({DedupGroupOf(i) : i \in {k \in 1..Len(cs_arg) : IsSource(k)}})

\* C24: for the categories that are sources of the dedup table,
\* consolidate_events groups the records by (target category, ticker,
\* fiscal year and period when both are present, else event date) and
\* outputs exactly one record per group: a copy of a member whose original
\* category has the lowest priority index of the group, with its category
\* set to the target; the records passed in are not modified.
C24_OneRelabelledWinnerPerDedupGroup ==
    cs_pc = "done" =>
        /\ cs_events = cs_arg
        /\ \A i \in 1..Len(cs_arg) :
              IsSource(i) =>
                  LET out == {j \in 1..Len(cs_result) :
                                 /\ j <= WinnerCount
                                 /\ cs_result[j].event_type = TargetAt(i)
                                 /\ SameOccasion(cs_result[j], cs_arg[i])}
                  IN  /\ Cardinality(out) = 1
                      /\ \A j \in out : \E k \in DedupGroupOf(i) :
                            /\ cs_result[j] =
                                   [cs_arg[k] EXCEPT !.event_type = TargetAt(i)]
                            /\ \A m \in DedupGroupOf(i) : IndexAt(k) <= IndexAt(m)

\* RY's Earnings record and its confirmed release of 2024 Q2, a month
\* apart: one record is left, the release relabelled Earnings
C24_Witness ==
    /\ cs_pc = "done"
    /\ Len(cs_rules) = 1
    /\ Len(cs_arg) = 2
    /\ cs_arg[1] = Ev(RY_CA, "Earnings", NoonUtc(T_APR), T_APR, "2024", "Q2", <<>>)
    /\ cs_arg[2] = Ev(RY_CA, "ConfirmedEarningsRelease", NoonUtc(T_MAY), T_MAY,
                      "2024", "Q2", <<>>)
    /\ cs_result = <<[cs_arg[2] EXCEPT !.event_type = "Earnings"]>>
    /\ cs_events = cs_arg

\* the records passed whose category is no dedup source, in input order
Unlisted == SelectSeq(cs_arg, LAMBDA e :
                ~\E r \in 1..Len(cs_rules) : InList(e.event_type, cs_rules[r].sources))

\* C25: for the records whose category is no dedup source
\* consolidate_events is one-to-one: after the group winners the result
\* holds one record per such input record, in input order, equal to it in
\* every field except that a category found in the rename table is replaced
\* by its renamed category; a record matching neither table is output
\* unchanged, and with an empty dedup table the output is as long as the
\* input.
C25_UnlistedRecordsOneToOne ==
    cs_pc = "done" =>
        /\ Len(cs_result) = WinnerCount + Len(Unlisted)
        /\ \A r \in 1..Len(Unlisted) :
              /\ WinnerCount + r \in DOMAIN cs_result
              /\ LET e == Unlisted[r]
                     o == cs_result[WinnerCount + r]
                 IN  IF e.event_type \in DOMAIN RENAME_RULES
                     THEN o = [e EXCEPT !.event_type = RENAME_RULES[e.event_type]]
                     ELSE o = e
        /\ cs_rules = <<>> => Len(cs_result) = Len(cs_arg)

\* beside an Earnings record that is a dedup source, a revenue release is
\* relabelled SalesRevenue and a Dividend record is output as it is
C25_Witness ==
    /\ cs_pc = "done"
    /\ Len(cs_rules) = 1
    /\ Len(cs_arg) = 3
    /\ cs_arg[1] = Ev(RY_CA, "SalesRevenueRelease", NoonUtc(T_APR), T_APR, "", "", <<>>)
    /\ cs_arg[2] = Ev(RY_CA, "Earnings", NoonUtc(T_APR), T_APR, "2024", "Q2", <<>>)
    /\ cs_arg[3] = Ev(TD_CA, "Dividend", NoonUtc(T_APR), T_APR, "2024", "Q2", <<>>)
    /\ cs_result = <<cs_arg[2],
                     [cs_arg[1] EXCEPT !.event_type = "SalesRevenue"],
                     cs_arg[3]>>

\* under the shipped tables two revenue releases of one day both stay
C25_WitnessShipped ==
    /\ cs_pc = "done"
    /\ cs_rules = DEDUP_RULES
    /\ Len(cs_arg) = 2
    /\ cs_arg[1].event_type = "SalesRevenueRelease"
    /\ cs_arg[2] = cs_arg[1]
    /\ Len(cs_result) = 2
    /\ cs_result[1].event_type = "SalesRevenue"
    /\ cs_result[2] = cs_result[1]

----------------------------------------------------------------------------
(* transform_event called on its own, on any row of the raw file           *)

TransformTickers ==
    {RY_US, RY_CA, JPM_US, LB_US, Tk("", ""),
     Padded(RY_US), Padded(RY_CA), Padded(JPM_US)}

\* descriptions naming the ticker first, last, twice or not at all
DescriptionsOf(t) ==
    {<<t, Sp, Word("call")>>, <<Word("call"), Sp, t>>,
     <<t, Sp, Word("call"), Sp, t>>, <<Word("call")>>}

TransformPool ==
    {[RawEv(t, "Earnings", n[1], n[2], "2024", "Q2", <<>>) EXCEPT !.description = d] :
        t \in TransformTickers,
        n \in {<<NoTimestamp, "">>, <<Timestamp(2024, 5, 28, 12, <<0>>), "Unspecified">>},
        d \in UNION {DescriptionsOf(strip(u)) : u \in TransformTickers}}

NotTransform == UNCHANGED <<stage2_vars, DATETIME_DEDUP_PRIORITY, rs_vars, ex_vars,
                            mg_vars, tz_vars, fl_vars, s3_vars, ft_vars, cs_vars,
                            sp_vars, pl_vars>>

InitTransform ==
    /\ tr_pc = "idle"
    /\ tr_arg \in TransformPool
    /\ tr_raw = tr_arg
    /\ tr_out = <<>>
    /\ DATETIME_DEDUP_PRIORITY = ShippedPriority
    /\ Stage2Off /\ ResolversOff /\ ExpandOff /\ MergeOff /\ TzOff
    /\ FilterOff /\ Stage3Off /\ FetchOff /\ ConsolidateOff /\ SplitOff
    /\ PipelineOff

\* line 594: transform_event(e, institutions, timestamp); the record is
\* only read (get_field) and the table only looked up (institutions.get)
CallTransformEvent ==
    /\ tr_pc = "idle"
    /\ \E now \in Clock : tr_out' = transform_event(tr_arg, institutions, now)
    /\ tr_raw' = tr_raw
    /\ tr_pc' = "done"
    /\ UNCHANGED tr_arg
    /\ NotTransform

NextTransform == CallTransformEvent

SpecTransform == InitTransform /\ [][NextTransform]_vars

----------------------------------------------------------------------------
(* Claim about the ticker rewrite of transform_event                       *)

\* is the ticker B-US for one of the fixed Canadian bank bases
IsCanadianUs(t) == t.pad = "" /\ t.sfx = "-US" /\ t.base \in CANADIAN_BANK_BASES

C26_WitnessPadded ==
    /\ tr_pc = "done"
    /\ \/ tr_arg.ticker = Padded(JPM_US) /\ tr_out.ticker = JPM_US
       \/ /\ tr_arg.ticker = Padded(RY_US)
          /\ tr_arg.description = <<RY_US, Sp, Word("call")>>
          /\ tr_out.ticker = RY_CA
          /\ tr_out.event_headline = <<RY_US, Sp, Word("call")>> \o
                 (IF tr_arg.market_time_code = "Unspecified" THEN <<TimeTBD>> ELSE <<>>)

----------------------------------------------------------------------------
(* Claim about the retry loop of query_chunk                               *)

\* the query_chunk call that started last has returned
Returned == attempt = 0 /\ ft_calls > 0

\* the calls, sleeps and caught errors of the query_chunk call that started
\* last: never more than max_retries calls; a sleep of 2^attempt seconds
\* and a retryable error before every call but the first; once it has
\* returned, it ended on a response, on an error that is not retryable or
\* on an error of the last attempt, and its result is the filtered
\* response or an empty list
RetriesInOrder ==
    /\ ft_calls <= max_retries
    /\ Len(ft_sleeps) <= max_retries - 1
    /\ \A k \in 1..Len(ft_sleeps) :
          /\ ft_sleeps[k] = 2 ^ (k - 1)
          /\ k \in DOMAIN ft_caught
          /\ is_retryable(ft_caught[k])
    /\ attempt > 0 =>
          /\ ft_calls = attempt
          /\ Len(ft_sleeps) = attempt
          /\ Len(ft_caught) = attempt
    /\ Returned =>
          /\ Len(ft_sleeps) = ft_calls - 1
          /\ ft_chunks # <<>>
          /\ LET e == ft_chunks[Len(ft_chunks)] IN
             /\ e.ended \in {"ok", "error"}
             /\ e.ended = "ok" => Len(ft_caught) = ft_calls - 1
             /\ e.ended = "error" =>
                    /\ Len(ft_caught) = ft_calls
                    /\ e.data = <<>>
                    /\ \/ ~is_retryable(ft_caught[ft_calls])
                       \/ ft_calls = max_retries
    /\ mg_events = EventsOfOk(ft_chunks, expanded)

\* C27: query_chunk always terminates, after at most max_retries calls to
\* the API: another call is made only after a retryable error on an attempt
\* that is not the last, 2^attempt seconds later (attempt counted from 0);
\* after a response, an error that is not retryable or an error on the last
\* attempt no further call is made and it returns the ticker-filtered
\* response or an empty list.
C27_QueryChunkEndsWithinMaxRetries ==
    /\ []RetriesInOrder
    /\ \A c \in 1..MaxChunks :
          (mg_pc = "querying" /\ chunk_i = c) ~> (Len(ft_chunks) >= c)

\* five calls that all failed on a connection error, with sleeps of 1, 2, 4
\* and 8 seconds between them: the chunk ends empty
C27_Witness ==
    /\ Returned
    /\ ft_calls = max_retries
    /\ ft_sleeps = <<1, 2, 4, 8>>
    /\ ft_caught = [k \in 1..max_retries |-> "connection reset"]
    /\ ft_chunks[Len(ft_chunks)].ended = "error"

----------------------------------------------------------------------------
(* Stage 1: split_date_range (data_acquisition.py:256-276)                 *)

\* datetime.MAXYEAR: date(year, month, day) raises ValueError beyond it
MAXYEAR == 9999

\* date(current.year, current.month, calendar.monthrange(...)[1])
month_end(d) == <<d[1], d[2], DaysIn(d[1], d[2])>>

\* variant: the chunk runs to the end of its month
chunk_end_of_month(d, last) == month_end(d)

\* min(month_end, end_date)
chunk_end(d, last) == IF LexLess(last, month_end(d)) THEN last ELSE month_end(d)

\* the arguments of date() at lines 271-274
next_month(d) == IF d[2] = 12 THEN <<d[1] + 1, 1, 1>> ELSE <<d[1], d[2] + 1, 1>>

\* ranges around a year's end, a leap February, and the last two months
\* the date type can hold
SplitDates ==
    {<<2023, 11, 30>>, <<2023, 12, 1>>, <<2023, 12, 31>>, <<2024, 1, 1>>,
     <<2024, 1, 15>>, <<2024, 2, 29>>, <<2024, 3, 1>>,
     <<9999, 11, 30>>, <<9999, 12, 1>>, <<9999, 12, 31>>}

\* the ranges tried run over at most MaxSpan year ends
MaxSpan == 1

NotSplit == UNCHANGED <<stage2_vars, DATETIME_DEDUP_PRIORITY, rs_vars, ex_vars,
                        mg_vars, tz_vars, fl_vars, s3_vars, ft_vars, cs_vars, tr_vars,
                        pl_vars>>

InitSplit ==
    /\ sp_pc = "loop"
    /\ start_date \in SplitDates
    /\ end_date \in {d \in SplitDates : d[1] <= start_date[1] + MaxSpan}
    /\ current = start_date
    /\ ranges = <<>>
    /\ DATETIME_DEDUP_PRIORITY = ShippedPriority
    /\ Stage2Off /\ ResolversOff /\ ExpandOff /\ MergeOff /\ TzOff
    /\ FilterOff /\ Stage3Off /\ FetchOff /\ ConsolidateOff /\ TransformOff
    /\ PipelineOff

\* one pass of the loop body (lines 262-274)
SplitChunk ==
    /\ sp_pc = "loop"
    /\ LexLeq(current, end_date)
    /\ next_month(current)[1] <= MAXYEAR
    /\ ranges' = Append(ranges, <<current, chunk_end(current, end_date)>>)
    /\ current' = next_month(current)
    /\ UNCHANGED <<sp_pc, start_date, end_date>>
    /\ NotSplit

\* the pass in December of MAXYEAR: date(current.year + 1, 1, 1) at line
\* 272 raises ValueError
SplitRaises ==
    /\ sp_pc = "loop"
    /\ LexLeq(current, end_date)
    /\ next_month(current)[1] > MAXYEAR
    /\ ranges' = Append(ranges, <<current, chunk_end(current, end_date)>>)
    /\ sp_pc' = "raised"
    /\ UNCHANGED <<start_date, end_date, current>>
    /\ NotSplit

\* line 276: return ranges
SplitReturns ==
    /\ sp_pc = "loop"
    /\ ~LexLeq(current, end_date)
    /\ sp_pc' = "returned"
    /\ UNCHANGED <<start_date, end_date, current, ranges>>
    /\ NotSplit

NextSplit == SplitChunk \/ SplitRaises \/ SplitReturns

SpecSplit == InitSplit /\ [][NextSplit]_vars

----------------------------------------------------------------------------
(* Claim about split_date_range                                            *)

\* the returned chunks partition start_date..end_date month by month
MonthlyPartition ==
    /\ ranges # <<>>
    /\ ranges[1][1] = start_date
    /\ ranges[Len(ranges)][2] = end_date
    /\ \A k \in 1..(Len(ranges) - 1) : ranges[k + 1][1] = NextDay(ranges[k][2])
    /\ \A k \in 1..Len(ranges) :
          /\ LexLeq(ranges[k][1], ranges[k][2])
          /\ SubSeq(ranges[k][1], 1, 2) = SubSeq(ranges[k][2], 1, 2)

\* C28 as stated: for any start_date <= end_date split_date_range returns
\* a non-empty list of chunks that partition the range: the first starts at
\* start_date, the last ends at end_date, each starts the day after the
\* previous one ends, each has start <= end and lies within one calendar
\* month; for start_date > end_date it returns an empty list.
C28_ReturnsMonthlyPartition ==
    /\ sp_pc # "raised"
    /\ sp_pc = "returned" =>
          IF LexLeq(start_date, end_date) THEN MonthlyPartition ELSE ranges = <<>>

\* C28 as amended: the same for any start_date <= end_date with end_date
\* before December of year 9999; the call raises only for a range that
\* reaches that month.
C28_ReturnsMonthlyPartitionBeforeLastMonth ==
    /\ sp_pc = "raised" =>
          /\ LexLeq(start_date, end_date)
          /\ SubSeq(end_date, 1, 2) = <<MAXYEAR, 12>>
    /\ sp_pc = "returned" =>
          IF LexLeq(start_date, end_date) THEN MonthlyPartition ELSE ranges = <<>>

\* 2023-11-30 to 2024-03-01 comes back as five chunks, the first and the
\* last of one day
C28_Witness ==
    /\ sp_pc = "returned"
    /\ start_date = <<2023, 11, 30>> /\ end_date = <<2024, 3, 1>>
    /\ ranges = << <<start_date, start_date>>,
                   << <<2023, 12, 1>>, <<2023, 12, 31>> >>,
                   << <<2024, 1, 1>>, <<2024, 1, 31>> >>,
                   << <<2024, 2, 1>>, <<2024, 2, 29>> >>,
                   <<end_date, end_date>> >>

\* a range given backwards comes back empty
C28_WitnessEmpty ==
    /\ sp_pc = "returned"
    /\ LexLess(end_date, start_date)
    /\ ranges = <<>>

----------------------------------------------------------------------------
(* Claim about a failure in the middle of the stage 3 replace              *)

\* an INSERT of a real upload has raised after the DELETE was run
InsertFailedAfterDelete ==
    /\ s3_pc = "crashed"
    /\ ~dry_run
    /\ Issued("DELETE") /\ Issued("INSERT")

\* C29: the stage 3 replace is atomic with respect to failure: if an INSERT
\* fails after the DELETE has run in an upload that is no dry run, the
\* destination table still holds its rows from before the run; it is never
\* left empty or holding only part of the new events.
C29_FailedInsertKeepsOldRows ==
    InsertFailedAfterDelete =>
        /\ Len(table) = current_count
        /\ \A k \in 1..Len(table) : table[k].old

----------------------------------------------------------------------------
(* main.py: stage_1(), stage_2(), stage_3() over the files in output/.     *)
(* A row is known by the run that fetched it: "earlier" or "this".         *)

\* lists of 1..MaxRows rows fetched by the given run
RowsOf(r) == SeqsUpTo({r}, MaxRows) \ {<<>>}

\* a file left by an earlier run, or none
EarlierFiles == {NoFile} \cup {File(rows) : rows \in RowsOf("earlier")}

NotPipeline == UNCHANGED <<stage2_vars, DATETIME_DEDUP_PRIORITY, rs_vars, ex_vars,
                           mg_vars, tz_vars, fl_vars, s3_vars, ft_vars, cs_vars,
                           tr_vars, sp_vars>>

InitPipeline ==
    /\ pl_pc = "stage_1"
    /\ pl_args \in [dry_run : BOOLEAN, skip_upload : BOOLEAN]
    /\ raw_csv \in EarlierFiles
    /\ processed_csv \in EarlierFiles
    /\ pl_table \in SeqsUpTo({"earlier"}, MaxRows)
    /\ pl_fetched = <<>>
    /\ pl_raw_events = <<>>
    /\ pl_stage2 = ""
    /\ pl_events = <<>>
    /\ pl_replaced = FALSE
    /\ DATETIME_DEDUP_PRIORITY = ShippedPriority
    /\ Stage2Off /\ ResolversOff /\ ExpandOff /\ MergeOff /\ TzOff
    /\ FilterOff /\ Stage3Off /\ FetchOff /\ ConsolidateOff /\ TransformOff
    /\ SplitOff

\* main.py line 79: stage 1 fetches some events, or none, and save_events
\* (data_acquisition.py:360-373) writes the file only when there are some
PipelineStage1 ==
    /\ pl_pc = "stage_1"
    /\ \E fetched \in SeqsUpTo({"this"}, MaxRows) :
          /\ pl_fetched' = fetched
          /\ raw_csv' = IF fetched = <<>> THEN raw_csv ELSE File(fetched)
    /\ pl_pc' = "stage_2"
    /\ UNCHANGED <<pl_args, processed_csv, pl_table, pl_raw_events, pl_stage2,
                   pl_events, pl_replaced>>
    /\ NotPipeline

\* main.py line 84: stage 2 returns when its input is missing; else it
\* loads the file, keeps some of the rows and save_events
\* (data_processing.py:555-566) writes the file only when some are left
PipelineStage2 ==
    /\ pl_pc = "stage_2"
    /\ IF ~raw_csv.exists
       THEN /\ pl_stage2' = "aborted"
            /\ UNCHANGED <<pl_raw_events, processed_csv>>
       ELSE /\ pl_raw_events' = raw_csv.rows
            /\ \E kept \in 0..Len(raw_csv.rows) :
                  IF kept = 0
                  THEN pl_stage2' = "nothing to save" /\ UNCHANGED processed_csv
                  ELSE /\ pl_stage2' = "saved"
                       /\ processed_csv' = File(SubSeq(raw_csv.rows, 1, kept))
    /\ pl_pc' = "stage_3"
    /\ UNCHANGED <<pl_args, raw_csv, pl_table, pl_fetched, pl_events, pl_replaced>>
    /\ NotPipeline

\* main.py lines 86-97 and database_upload.main(): skipped on
\* --skip-upload; returns when its input is missing or the database is
\* not reached; else loads the file and, unless --dry-run, replaces the
\* table's rows with the file's
PipelineStage3 ==
    /\ pl_pc = "stage_3"
    /\ IF pl_args.skip_upload \/ ~processed_csv.exists
       THEN UNCHANGED <<pl_events, pl_table, pl_replaced>>
       ELSE /\ pl_events' = processed_csv.rows
            /\ \E reached \in BOOLEAN :
                  IF reached /\ ~pl_args.dry_run
                  THEN pl_table' = processed_csv.rows /\ pl_replaced' = TRUE
                  ELSE UNCHANGED <<pl_table, pl_replaced>>
    /\ pl_pc' = "complete"
    /\ UNCHANGED <<pl_args, raw_csv, processed_csv, pl_fetched, pl_raw_events,
                   pl_stage2>>
    /\ NotPipeline

NextPipeline == PipelineStage1 \/ PipelineStage2 \/ PipelineStage3

SpecPipeline == InitPipeline /\ [][NextPipeline]_vars

----------------------------------------------------------------------------
(* Claim about files left over from an earlier run                         *)

\* does the list hold a row fetched by an earlier run
HasEarlier(rows) == \E k \in 1..Len(rows) : rows[k] = "earlier"

\* C30: in the full pipeline of main.py, stage 3 replaces the destination's
\* rows only with data that stage 2 produced in the same run: if stage 2
\* aborts because its input is missing, or writes no output file because no
\* events remain, or stage 1 saves no file because it fetched no events,
\* then no rows left over from an earlier run's files are processed or
\* uploaded.
C30_NoLeftoverRowsProcessedOrUploaded ==
    /\ pl_replaced => pl_stage2 = "saved"
    /\ (pl_stage2 \in {"aborted", "nothing to save"}
          \/ (pl_pc # "stage_1" /\ pl_fetched = <<>>)) =>
          /\ ~HasEarlier(pl_raw_events)
          /\ ~HasEarlier(pl_events)
          /\ pl_replaced => ~HasEarlier(pl_table)

====
